---- MODULE Spec2Model ----
(***************************************************************************)
(* Verification model of openISL's terminal client (crate tui):            *)
(*   - the commit graph builder CommitTree (src/tui/src/tree.rs)            *)
(*   - the application state machine App and its event loop                 *)
(*     (src/tui/src/app.rs)                                                 *)
(* Text (String) values are modelled as sequences of one-character strings *)
(* so that to_lowercase / starts_with / contains are computed, not assumed. *)
(***************************************************************************)
EXTENDS Integers, Sequences, FiniteSets, TLC

VARIABLES
    \* ---- CommitTree::new(commits) ----
    tree_input,      \* the Vec<Commit> handed to CommitTree::new
    tree_nodes,      \* CommitTree.nodes
    tree_max_depth,  \* CommitTree.max_depth
    tree_pc,         \* "new": before build_tree ran, "built": after
    \* ---- run_tui ----
    app,             \* the App instance (a record of its fields)
    should_quit,     \* the terminate flag the last handle_key returned (loop exit)
    event,           \* the event the last loop iteration read
    prev,            \* Snapshot of app before that event was handled
    \* ---- App.stats ----
    stats_commits,   \* App.commits as App::new / set_commits assigned it
    stats,           \* App.stats (RepoStats)
    stats_calls,     \* number of set_commits calls made so far
    now,             \* chrono::Utc::now(), in days
    \* ---- DiffParser ----
    diff_content,    \* the diff text handed to DiffParser::parse, a list of lines
    diff_lines,      \* the Vec<ColoredDiffLine> parse returned
    diff_stats,      \* the DiffStats count_stats returned
    diff_pc,         \* "text": before parse, "parsed", "counted"
    \* ---- DiffParser::detect_language, apply_syntax_highlighting ----
    hl_args,         \* the file path, the line and the flags of the calls
    hl_language,     \* the language name handed to apply_syntax_highlighting
    hl_line,         \* the Line apply_syntax_highlighting returned, None before
    hl_pc            \* "path": before detect_language, "language", "styled"

tree_vars == <<tree_input, tree_nodes, tree_max_depth, tree_pc>>

app_vars == <<app, should_quit, event, prev>>

stats_vars == <<stats_commits, stats, stats_calls, now>>

highlight_vars == <<hl_args, hl_language, hl_line, hl_pc>>

diff_vars == <<diff_content, diff_lines, diff_stats, diff_pc, highlight_vars>>

vars == <<tree_input, tree_nodes, tree_max_depth, tree_pc, app, should_quit, event, prev,
          stats_commits, stats, stats_calls, now,
          diff_content, diff_lines, diff_stats, diff_pc,
          hl_args, hl_language, hl_line, hl_pc>>

----------------------------------------------------------------------------
(* Bounds of the model *)

\* longest commit list handed to the graph builder
MaxTreeCommits == 3
\* commit timestamps are drawn from 1..MaxDate
MaxDate == 2
\* longest commit list of the event-loop specification Spec
MaxCommits == 1
\* most characters the input buffers hold together
MaxInput == 1
\* longest commit list of the navigation specification SpecNav
MaxNavCommits == 22
\* longest commit list of the selection specification SpecSel
MaxSelCommits == 3
\* longest commit list of the filter specification
MaxFilterCommits == 3
\* most characters the filter prompt holds
MaxFilterInput == 5
\* longest commit list of the command palette specification
MaxPaletteCommits == 1
\* most characters the palette prompt holds
MaxPaletteInput == 1

\* commits in the longest list of the diff view's specification
MaxDiffViewCommits == 3

\* commits in the longest list of the specification that replaces the list
MaxReloadCommits == 3

\* commits in the longest list whose graph rows are compared with the list
MaxRowCommits == 3

\* commits in the longest list of the specification of tied dates
MaxTieCommits == 3

\* commits in the largest forest handed to the graph builder
MaxLaneCommits == 6

\* characters in the longest line handed to the highlighter
MaxLineLength == 3

\* commits in the longest list of the mouse specification
MaxMouseCommits == 21

\* commits in the list of the staging and diff-fetch specification
MaxCollabCommits == 2
\* longest commit list of the classification specification
MaxTypeCommits == 3
\* chain timestamps are drawn from 1..MaxChainDate
MaxChainDate == 5
\* most lines of a diff text
MaxDiffLines == 4
\* longest commit list of the statistics specification
MaxStatsCommits == 3
\* most set_commits calls after App::new
MaxSetCommits == 2

----------------------------------------------------------------------------
(* Generic helpers for Rust's std operations *)

Min(a, b) == IF a < b THEN a ELSE b

Max(a, b) == IF a > b THEN a ELSE b

\* usize::saturating_sub
saturating_sub(a, b) == IF a > b THEN a - b ELSE 0

Range(s) == {s[i] : i \in DOMAIN s}

\* Vec::reverse
Reverse(s) == [i \in 1..Len(s) |-> s[Len(s) + 1 - i]]

UpperCase == <<"A","B","C","D","E","F","G","H","I","J","K","L","M",
               "N","O","P","Q","R","S","T","U","V","W","X","Y","Z">>

LowerCase == <<"a","b","c","d","e","f","g","h","i","j","k","l","m",
               "n","o","p","q","r","s","t","u","v","w","x","y","z">>

\* char::to_lowercase on the ASCII range
LowerChar(c) ==
    IF \E i \in 1..26 : UpperCase[i] = c
    THEN LowerCase[CHOOSE i \in 1..26 : UpperCase[i] = c]
    ELSE c

\* str::to_lowercase
to_lowercase(s) == [i \in 1..Len(s) |-> LowerChar(s[i])]

\* str::starts_with
starts_with(s, p) == Len(p) <= Len(s) /\ SubSeq(s, 1, Len(p)) = p

\* str::contains
contains(s, p) ==
    \E i \in 0..(Len(s) - Len(p)) : SubSeq(s, i + 1, i + Len(p)) = p

----------------------------------------------------------------------------
(* Commit graph builder, src/tui/src/tree.rs *)

\* HashMap<String, &Commit> built by collect(): a later duplicate id wins
commit_map(commits) ==
    [h \in {commits[i].hash : i \in 1..Len(commits)} |->
        commits[CHOOSE i \in 1..Len(commits) :
                    /\ commits[i].hash = h
                    /\ \A j \in 1..Len(commits) : commits[j].hash = h => j <= i]]

\* parent_map.entry(parent).or_default().push(child)
parent_map_push(pm, parent, child) ==
    IF parent \in DOMAIN pm
    THEN [pm EXCEPT ![parent] = Append(@, child)]
    ELSE pm @@ (parent :> <<child>>)

\* the inner loop  for parent in &commit.parent_hashes
RECURSIVE parent_map_of_commit(_, _, _)
parent_map_of_commit(pm, commit, k) ==
    IF k > Len(commit.parent_hashes) THEN pm
    ELSE parent_map_of_commit(
            parent_map_push(pm, commit.parent_hashes[k], commit.hash), commit, k + 1)

\* the outer loop  for commit in &commits : reverse map parent id -> child ids
RECURSIVE parent_map_from(_, _, _)
parent_map_from(pm, commits, i) ==
    IF i > Len(commits) THEN pm
    ELSE parent_map_from(parent_map_of_commit(pm, commits[i], 1), commits, i + 1)

parent_map(commits) == parent_map_from(<<>>, commits, 1)

\* commits without parents, or that no commit of the list names as a parent
is_root(commit, pm) ==
    commit.parent_hashes = <<>> \/ commit.hash \notin DOMAIN pm

root_commits(commits, pm) == SelectSeq(commits, LAMBDA c : is_root(c, pm))

HasRef(commit, t) == \E i \in 1..Len(commit.refs) : commit.refs[i] = t

\* detect_commit_type that looks at the summary only to find a merge
detect_commit_type_by_summary(commit, children, parents, is_merge) ==
    LET summary_lower == to_lowercase(commit.summary) IN
    IF HasRef(commit, "Tag") THEN "Tag"
    ELSE IF starts_with(summary_lower, <<"m","e","r","g","e">>) THEN "Merge"
    ELSE IF \/ starts_with(summary_lower, <<"r","e","v","e","r","t"," ">>)
            \/ starts_with(summary_lower, <<"r","e","v","e","r","t",":">>) THEN "Revert"
    ELSE IF starts_with(summary_lower, <<"s","q","u","a","s","h"," ">>) THEN "Squash"
    ELSE IF parents = <<>> THEN "Initial"
    ELSE IF Len(children) > 1 THEN "Branch"
    ELSE "Regular"

\* detect_commit_type that tests the revert prefixes before the merge
detect_commit_type_revert_first(commit, children, parents, is_merge) ==
    LET summary_lower == to_lowercase(commit.summary) IN
    IF HasRef(commit, "Tag") THEN "Tag"
    ELSE IF \/ starts_with(summary_lower, <<"r","e","v","e","r","t"," ">>)
            \/ starts_with(summary_lower, <<"r","e","v","e","r","t",":">>) THEN "Revert"
    ELSE IF starts_with(summary_lower, <<"m","e","r","g","e">>) \/ is_merge THEN "Merge"
    ELSE IF starts_with(summary_lower, <<"s","q","u","a","s","h"," ">>) THEN "Squash"
    ELSE IF parents = <<>> THEN "Initial"
    ELSE IF Len(children) > 1 THEN "Branch"
    ELSE "Regular"

detect_commit_type(commit, children, parents, is_merge) ==
    LET summary_lower == to_lowercase(commit.summary) IN
    IF HasRef(commit, "Tag") THEN "Tag"
    ELSE IF starts_with(summary_lower, <<"m","e","r","g","e">>) \/ is_merge THEN "Merge"
    ELSE IF \/ starts_with(summary_lower, <<"r","e","v","e","r","t"," ">>)
            \/ starts_with(summary_lower, <<"r","e","v","e","r","t",":">>) THEN "Revert"
    ELSE IF starts_with(summary_lower, <<"s","q","u","a","s","h"," ">>) THEN "Squash"
    ELSE IF parents = <<>> THEN "Initial"
    ELSE IF Len(children) > 1 THEN "Branch"
    ELSE "Regular"

\* lanes.iter().enumerate().map(..) : one BranchLane per lane slot (idx is 0-based)
make_branch_lanes(lanes, lane_index, n_children, is_merge) ==
    [k \in 1..Len(lanes) |->
        [is_continuing   |-> lanes[k],
         is_branch_point |-> (k - 1 = lane_index /\ n_children > 1),
         is_merge        |-> (is_merge /\ k - 1 = lane_index),
         is_active       |-> (k - 1 = lane_index),
         lane_color      |-> (k - 1) % 8]]

\* the lane index handed to the i-th child (i is 0-based)
child_lane_index_of(i, depth, lane_index) == IF i = 0 THEN lane_index ELSE depth + i

\* the child's own copy of the lane vector (lanes.to_owned() and its update)
new_lanes_of(lanes, i, lane_index, child_lane_index) ==
    IF i = 0
    THEN IF lanes # <<>> /\ lane_index < Len(lanes)
         THEN [lanes EXCEPT ![lane_index + 1] = TRUE]
         ELSE lanes
    ELSE [k \in 1..Max(Len(lanes), child_lane_index + 1) |->
            IF k = child_lane_index + 1 THEN TRUE
            ELSE IF k <= Len(lanes) THEN lanes[k] ELSE FALSE]

\* t is the builder's mutable context: [nodes, processed, max_depth]
RECURSIVE build_branch(_, _, _, _, _, _, _)
RECURSIVE build_children(_, _, _, _, _, _, _, _)

build_branch(t, commit, cm, pm, lanes, depth, lane_index) ==
    IF commit.hash \in t.processed THEN t
    ELSE
      LET children_hashes == IF commit.hash \in DOMAIN pm THEN pm[commit.hash] ELSE <<>>
          is_merge == Len(children_hashes) > 1 \/ Len(commit.parent_hashes) > 1
          node == [commit         |-> commit,
                   is_main_branch |-> HasRef(commit, "Head"),
                   branch_lanes   |-> make_branch_lanes(lanes, lane_index,
                                                        Len(children_hashes), is_merge),
                   lane_index     |-> lane_index,
                   commit_type    |-> detect_commit_type(commit, children_hashes,
                                                         commit.parent_hashes, is_merge)]
          t1 == [nodes     |-> Append(t.nodes, node),
                 processed |-> t.processed \cup {commit.hash},
                 max_depth |-> Max(t.max_depth, depth)]
      IN build_children(t1, children_hashes, 0, cm, pm, lanes, depth, lane_index)

\* for (i, child_hash) in children_hashes.iter().enumerate()
build_children(t, children_hashes, i, cm, pm, lanes, depth, lane_index) ==
    IF i >= Len(children_hashes) THEN t
    ELSE
      LET child_hash == children_hashes[i + 1]
          child_lane_index == child_lane_index_of(i, depth, lane_index)
          t1 == IF child_hash \in DOMAIN cm
                THEN build_branch(t, cm[child_hash], cm, pm,
                                  new_lanes_of(lanes, i, lane_index, child_lane_index),
                                  depth + 1, child_lane_index)
                ELSE t
      IN build_children(t1, children_hashes, i + 1, cm, pm, lanes, depth, lane_index)

\* for root in root_commits { self.build_branch(root, .., &mut Vec::new(), 0, 0) }
RECURSIVE build_roots(_, _, _, _, _)
build_roots(t, roots, k, cm, pm) ==
    IF k > Len(roots) THEN t
    ELSE build_roots(build_branch(t, roots[k], cm, pm, <<>>, 0, 0), roots, k + 1, cm, pm)

\* slice::sort_by_key(|n| n.commit.date): a stable ascending sort (insertion of each
\* element after the elements whose key is <= its key)
RECURSIVE insert_by_date(_, _)
insert_by_date(sorted, n) ==
    IF sorted = <<>> THEN <<n>>
    ELSE IF sorted[Len(sorted)].commit.date <= n.commit.date THEN Append(sorted, n)
    ELSE Append(insert_by_date(SubSeq(sorted, 1, Len(sorted) - 1), n), sorted[Len(sorted)])

RECURSIVE sort_by_date(_)
sort_by_date(s) ==
    IF s = <<>> THEN <<>>
    ELSE insert_by_date(sort_by_date(SubSeq(s, 1, Len(s) - 1)), s[Len(s)])

\* mutant of sort_nodes: the nodes stay in the order the walk emitted them
sort_nodes_unsorted(nodes) == nodes

\* mutant of sort_nodes: the reverse() is forgotten
sort_nodes_ascending(nodes) == sort_by_date(nodes)

\* mutant of sort_nodes: a stable sort by date descending, which keeps nodes of
\* equal date in the order the walk emitted them
sort_nodes_stable_descending(nodes) == Reverse(sort_by_date(Reverse(nodes)))

\* self.nodes.sort_by_key(|n| n.commit.date); self.nodes.reverse();
sort_nodes(nodes) == Reverse(sort_by_date(nodes))

\* build_tree up to the final sort: the builder's context after the walk from
\* every root, its nodes in the order build_branch pushed them
walk(commits) ==
    LET cm == commit_map(commits)
        pm == parent_map(commits)
    IN build_roots([nodes |-> <<>>, processed |-> {}, max_depth |-> 0],
                   root_commits(commits, pm), 1, cm, pm)

\* CommitTree::build_tree : the resulting [nodes, max_depth]
build_tree(commits) ==
    IF commits = <<>> THEN [nodes |-> <<>>, max_depth |-> 0]
    ELSE
      LET t == walk(commits)
      IN [nodes |-> sort_nodes(t.nodes), max_depth |-> t.max_depth]

----------------------------------------------------------------------------
(* Inputs of the graph builder *)

\* commit ids in creation order; a parent is always an older commit
TreeIds == <<"a", "b", "c", "d", "e">>

\* a parent id that is not in the supplied list (partial window)
OutsideId == "x"

\* ids a commit with id number i may name as parents
OlderIds(i) == {TreeIds[j] : j \in 1..(i - 1)} \cup {OutsideId}

\* parent lists: none, one parent (listed or outside the list), or two listed
\* parents (older one first; the builder reads parent_hashes only for its length
\* and as keys of parent_map)
ParentLists(i) ==
    {<<>>} \cup {<<p>> : p \in OlderIds(i)}
           \cup UNION {{<<TreeIds[j], TreeIds[k]>> : k \in (j + 1)..(i - 1)}
                         : j \in 1..(i - 1)}

TreeSummary == <<"f", "i", "x">>

TreeCommit(i, parents, date) ==
    [hash          |-> TreeIds[i],
     short_hash    |-> <<TreeIds[i]>>,
     message       |-> TreeSummary,
     summary       |-> TreeSummary,
     author        |-> <<"t">>,
     date          |-> date,
     parent_hashes |-> parents,
     refs          |-> <<>>]

\* the orders in which n commits can be listed
ListOrders(n) == {p \in [1..n -> 1..n] : \A i, j \in 1..n : i # j => p[i] # p[j]}

\* one parent list per commit
ParentChoices(n) ==
    {ps \in [1..n -> UNION {ParentLists(i) : i \in 1..n}] :
        \A i \in 1..n : ps[i] \in ParentLists(i)}

\* the commit list: position k holds commit number order[k]
TreeInput(n, order, parents, dates) ==
    [k \in 1..n |-> TreeCommit(order[k], parents[order[k]], dates[order[k]])]

----------------------------------------------------------------------------
(* Application state machine, src/tui/src/app.rs.                           *)
(* `app` is the App instance run_tui owns; every method of App is an        *)
(* operator from an App value to the App value it leaves behind.            *)
(* App.tree is CommitTree::new(app.commits) and App.diff_stats is           *)
(* DiffParser::count_stats over app.diff_content: they are not stored in    *)
(* the record. App.stats, which only App::new and set_commits write and no  *)
(* handler reads, is the variable stats. The fields no handler reads or     *)
(* writes (show_help, show_stats, current_branch, keybindings, branches and *)
(* the per-panel scroll offsets) are left out.                              *)

\* Option<T>: None is the empty sequence, Some(x) the one-element sequence
None == <<>>

Some(x) == <<x>>

\* items shown per page by the keyboard navigation (the literal 20)
PageSize == 20

\* items per page assumed by the mouse handlers (items_per_page)
MouseItemsPerPage == 15

\* header rows above the commit list in handle_main_area_click (header_height)
HeaderHeight == 2

\* width of the sidebar zone in handle_sidebar_click (sidebar_width)
SidebarWidth == 30

\* two clicks closer than this many milliseconds are a double click
DoubleClickMillis == 300

Letters == Range(UpperCase) \cup Range(LowerCase)

Digits == {"0", "1", "2", "3", "4", "5", "6", "7", "8", "9"}

\* char::is_ascii_alphanumeric
is_ascii_alphanumeric(c) == c \in Letters \cup Digits

\* Vec::get / slice::get with a 0-based index
Get(s, i) == IF i < Len(s) THEN Some(s[i + 1]) ELSE None

\* String::pop / Vec::pop
Pop(s) == IF s = <<>> THEN s ELSE SubSeq(s, 1, Len(s) - 1)

\* rotate_left that moves the first two entries to the end
rotate_left_by_two(s) ==
    IF Len(s) < 2 THEN s ELSE SubSeq(s, 3, Len(s)) \o SubSeq(s, 1, 2)

\* slice::rotate_left(1)
rotate_left(s) == IF s = <<>> THEN s ELSE Append(Tail(s), Head(s))

\* slice::rotate_right(1)
rotate_right(s) == IF s = <<>> THEN s ELSE <<s[Len(s)]>> \o SubSeq(s, 1, Len(s) - 1)

\* iter().position(|&i| i == x) : 1-based position of the first match, 0 if none
Position(s, x) ==
    IF \E i \in 1..Len(s) : s[i] = x
    THEN CHOOSE i \in 1..Len(s) : s[i] = x /\ \A j \in 1..(i - 1) : s[j] # x
    ELSE 0

\* the 0-based indices of a sequence: iter().enumerate()
Indices(s) == [i \in 1..Len(s) |-> i - 1]

(* Key events: crossterm KeyEvent { code, modifiers } *)

Key(code) == [code |-> code, ch |-> "", ctrl |-> FALSE, shift |-> FALSE]

Char(c) == [code |-> "Char", ch |-> c, ctrl |-> FALSE, shift |-> FALSE]

Ctrl(c) == [code |-> "Char", ch |-> c, ctrl |-> TRUE, shift |-> FALSE]

Shift(c) == [code |-> "Char", ch |-> c, ctrl |-> FALSE, shift |-> TRUE]

\* the pattern KeyCode::Char(c)
IsChar(key, c) == key.code = "Char" /\ key.ch = c

\* a handler's result: the App it leaves and the terminate flag it returns
Ret(a, quit) == [app |-> a, quit |-> quit]

\* the CommandAction values of the two catalogs (App::populate_command_palette and
\* App::get_all_commands agree on every entry they share); keys are display only
CommandCatalog == <<
    [id          |-> "toggle_sidebar",
     name        |-> <<"T","o","g","g","l","e"," ","S","i","d","e","b","a","r">>,
     description |-> <<"S","h","o","w","/","h","i","d","e"," ","t","h","e"," ","s","i","d","e","b","a","r"," ","p","a","n","e","l">>,
     action      |-> <<"t","o","g","g","l","e","_","s","i","d","e","b","a","r">>],
    [id          |-> "next_panel",
     name        |-> <<"N","e","x","t"," ","P","a","n","e","l">>,
     description |-> <<"M","o","v","e"," ","f","o","c","u","s"," ","t","o"," ","n","e","x","t"," ","p","a","n","e","l">>,
     action      |-> <<"n","e","x","t","_","p","a","n","e","l">>],
    [id          |-> "prev_panel",
     name        |-> <<"P","r","e","v","i","o","u","s"," ","P","a","n","e","l">>,
     description |-> <<"M","o","v","e"," ","f","o","c","u","s"," ","t","o"," ","p","r","e","v","i","o","u","s"," ","p","a","n","e","l">>,
     action      |-> <<"p","r","e","v","_","p","a","n","e","l">>],
    [id          |-> "move_up",
     name        |-> <<"N","a","v","i","g","a","t","e"," ","U","p">>,
     description |-> <<"M","o","v","e"," ","s","e","l","e","c","t","i","o","n"," ","u","p">>,
     action      |-> <<"m","o","v","e","_","u","p">>],
    [id          |-> "move_down",
     name        |-> <<"N","a","v","i","g","a","t","e"," ","D","o","w","n">>,
     description |-> <<"M","o","v","e"," ","s","e","l","e","c","t","i","o","n"," ","d","o","w","n">>,
     action      |-> <<"m","o","v","e","_","d","o","w","n">>],
    [id          |-> "toggle_stage",
     name        |-> <<"S","t","a","g","e","/","U","n","s","t","a","g","e"," ","F","i","l","e">>,
     description |-> <<"S","t","a","g","e"," ","o","r"," ","u","n","s","t","a","g","e"," ","t","h","e"," ","s","e","l","e","c","t","e","d"," ","f","i","l","e">>,
     action      |-> <<"t","o","g","g","l","e","_","s","t","a","g","e">>],
    [id          |-> "stage_all",
     name        |-> <<"S","t","a","g","e"," ","A","l","l">>,
     description |-> <<"S","t","a","g","e"," ","a","l","l"," ","f","i","l","e","s">>,
     action      |-> <<"s","t","a","g","e","_","a","l","l">>],
    [id          |-> "unstage_all",
     name        |-> <<"U","n","s","t","a","g","e"," ","A","l","l">>,
     description |-> <<"U","n","s","t","a","g","e"," ","a","l","l"," ","f","i","l","e","s">>,
     action      |-> <<"u","n","s","t","a","g","e","_","a","l","l">>],
    [id          |-> "go_to_start",
     name        |-> <<"G","o"," ","t","o"," ","S","t","a","r","t">>,
     description |-> <<"J","u","m","p"," ","t","o"," ","f","i","r","s","t"," ","i","t","e","m">>,
     action      |-> <<"g","o","_","t","o","_","s","t","a","r","t">>],
    [id          |-> "go_to_end",
     name        |-> <<"G","o"," ","t","o"," ","E","n","d">>,
     description |-> <<"J","u","m","p"," ","t","o"," ","l","a","s","t"," ","i","t","e","m">>,
     action      |-> <<"g","o","_","t","o","_","e","n","d">>],
    [id          |-> "view_details",
     name        |-> <<"V","i","e","w"," ","D","e","t","a","i","l","s">>,
     description |-> <<"S","h","o","w"," ","c","o","m","m","i","t","/","f","i","l","e"," ","d","e","t","a","i","l","s">>,
     action      |-> <<"v","i","e","w","_","d","e","t","a","i","l","s">>],
    [id          |-> "search",
     name        |-> <<"S","e","a","r","c","h">>,
     description |-> <<"S","e","a","r","c","h"," ","c","o","m","m","i","t","s"," ","o","r"," ","f","i","l","e","s">>,
     action      |-> <<"s","e","a","r","c","h">>],
    [id          |-> "toggle_theme",
     name        |-> <<"T","o","g","g","l","e"," ","T","h","e","m","e">>,
     description |-> <<"S","w","i","t","c","h"," ","b","e","t","w","e","e","n"," ","d","a","r","k","/","l","i","g","h","t"," ","t","h","e","m","e">>,
     action      |-> <<"t","o","g","g","l","e","_","t","h","e","m","e">>],
    [id          |-> "help",
     name        |-> <<"S","h","o","w"," ","H","e","l","p">>,
     description |-> <<"D","i","s","p","l","a","y"," ","k","e","y","b","o","a","r","d"," ","s","h","o","r","t","c","u","t","s">>,
     action      |-> <<"h","e","l","p">>],
    [id          |-> "quit",
     name        |-> <<"Q","u","i","t">>,
     description |-> <<"E","x","i","t"," ","o","p","e","n","i","s","l">>,
     action      |-> <<"q","u","i","t">>],
    [id          |-> "command_palette",
     name        |-> <<"C","o","m","m","a","n","d"," ","P","a","l","e","t","t","e">>,
     description |-> <<"O","p","e","n"," ","c","o","m","m","a","n","d"," ","s","e","a","r","c","h">>,
     action      |-> <<"c","o","m","m","a","n","d","_","p","a","l","e","t","t","e">>]
>>

\* App::populate_command_palette : the entries App::new installs, by action id
populate_command_palette ==
    <<"toggle_sidebar", "next_panel", "prev_panel", "move_up", "move_down",
      "go_to_start", "go_to_end", "view_details", "search", "toggle_theme",
      "help", "quit", "command_palette">>

\* App::get_all_commands : the entries the palette filters, by action id
get_all_commands ==
    <<"toggle_sidebar", "next_panel", "prev_panel", "move_up", "move_down",
      "toggle_stage", "stage_all", "unstage_all", "go_to_start", "go_to_end",
      "view_details", "search", "toggle_theme", "help", "quit", "command_palette">>

CommandById(id) ==
    CommandCatalog[CHOOSE i \in 1..Len(CommandCatalog) : CommandCatalog[i].id = id]

\* chrono format("%Y-%m-%d") of a date given as days since 2024-01-01 (year 2024)
MonthDays == <<31, 29, 31, 30, 31, 30, 31, 31, 30, 31, 30, 31>>

RECURSIVE MonthOf(_, _)
MonthOf(d, m) == IF m = 12 \/ d < MonthDays[m] THEN <<m, d + 1>> ELSE MonthOf(d - MonthDays[m], m + 1)

DigitChar(n) == CHOOSE c \in Digits : ToString(n) = c

TwoDigits(n) == <<DigitChar(n \div 10), DigitChar(n % 10)>>

format_date(d) ==
    LET md == MonthOf(d, 1) IN
    <<"2", "0", "2", "4", "-">> \o TwoDigits(md[1]) \o <<"-">> \o TwoDigits(md[2])

\* App::new (with run_tui's set_commits, which leaves the same fields)
AppNew(commits, has_repo) ==
    [commits                 |-> commits,
     filtered_commits        |-> commits,
     selected_index          |-> 0,
     scroll_offset           |-> 0,
     theme                   |-> "dark",
     view_mode               |-> "List",
     diff_content            |-> <<>>,
     status_message          |-> <<>>,
     branch_input            |-> <<>>,
     repo_path               |-> has_repo,
     search_query            |-> <<>>,
     search_results          |-> <<>>,
     is_searching            |-> FALSE,
     filter_mode             |-> "Author",
     filter_input            |-> <<>>,
     is_filtering            |-> FALSE,
     sidebar_visible         |-> TRUE,
     active_panel            |-> "Commits",
     files                   |-> <<>>,
     selected_file_index     |-> 0,
     command_palette_input   |-> <<>>,
     command_palette_results |-> populate_command_palette,
     last_click_position     |-> None,
     last_click_time         |-> None]

\* Theme::next
theme_next(name) ==
    CASE name = "dark" -> "light"
      [] name = "light" -> "monokai"
      [] name = "monokai" -> "nord"
      [] OTHER -> "dark"

filter_matches(a, commit, query) ==
    CASE a.filter_mode = "Author" -> contains(to_lowercase(commit.author), query)
      [] a.filter_mode = "Message" ->
            \/ contains(to_lowercase(commit.summary), query)
            \/ contains(to_lowercase(commit.message), query)
      [] OTHER -> contains(format_date(commit.date), query)

\* apply_filter that keeps only the matching commits in the full list as well
apply_filter_narrows_commits(a) ==
    IF a.filter_input = <<>>
    THEN [a EXCEPT !.filtered_commits = a.commits, !.is_filtering = FALSE]
    ELSE LET query == to_lowercase(a.filter_input)
             kept == SelectSeq(a.commits, LAMBDA c : filter_matches(a, c, query))
         IN [a EXCEPT !.is_filtering = TRUE,
                      !.filtered_commits = kept,
                      !.commits = kept,
                      !.selected_index = 0,
                      !.scroll_offset = 0]

\* apply_filter comparing the query as typed, without lowering its case
apply_filter_case_sensitive(a) ==
    IF a.filter_input = <<>>
    THEN [a EXCEPT !.filtered_commits = a.commits, !.is_filtering = FALSE]
    ELSE [a EXCEPT !.is_filtering = TRUE,
                   !.filtered_commits =
                        SelectSeq(a.commits, LAMBDA c : filter_matches(a, c, a.filter_input)),
                   !.selected_index = 0,
                   !.scroll_offset = 0]

\* App::apply_filter
apply_filter(a) ==
    IF a.filter_input = <<>>
    THEN [a EXCEPT !.filtered_commits = a.commits, !.is_filtering = FALSE]
    ELSE LET query == to_lowercase(a.filter_input) IN
         [a EXCEPT !.is_filtering = TRUE,
                   !.filtered_commits =
                        SelectSeq(a.commits, LAMBDA c : filter_matches(a, c, query)),
                   !.selected_index = 0,
                   !.scroll_offset = 0]

\* App::clear_filter
clear_filter(a) ==
    [a EXCEPT !.filter_input = <<>>,
              !.filtered_commits = a.commits,
              !.is_filtering = FALSE]

\* the list selected_commit / visible_commits read
shown_commits(a) == IF a.is_filtering THEN a.filtered_commits ELSE a.commits

\* App::selected_commit
selected_commit(a) == Get(shown_commits(a), a.selected_index)

search_matches(commit, query) ==
    \/ contains(to_lowercase(commit.summary), query)
    \/ contains(to_lowercase(commit.message), query)
    \/ contains(to_lowercase(commit.author), query)
    \/ contains(to_lowercase(commit.short_hash), query)

\* mutant of search: the selection is reset even when nothing matches
search_always_jumps(a) ==
    IF a.search_query = <<>>
    THEN [a EXCEPT !.search_results = <<>>]
    ELSE LET query == to_lowercase(a.search_query)
             results == SelectSeq(Indices(a.commits),
                                  LAMBDA i : search_matches(a.commits[i + 1], query))
         IN [a EXCEPT !.search_results = results,
                      !.selected_index = IF results # <<>> THEN results[1] ELSE 0,
                      !.scroll_offset = 0]

\* App::search
search(a) ==
    IF a.search_query = <<>>
    THEN [a EXCEPT !.search_results = <<>>]
    ELSE LET query == to_lowercase(a.search_query)
             results == SelectSeq(Indices(a.commits),
                                  LAMBDA i : search_matches(a.commits[i + 1], query))
         IN IF results # <<>>
            THEN [a EXCEPT !.search_results = results,
                           !.selected_index = results[1],
                           !.scroll_offset = 0]
            ELSE [a EXCEPT !.search_results = results]

\* mutant of next_search_result: after the last match it wraps to the first
next_search_result_wraps(a) ==
    LET current_pos == Position(a.search_results, a.selected_index) IN
    IF a.search_results = <<>> \/ current_pos = 0 THEN a
    ELSE [a EXCEPT !.selected_index =
                       a.search_results[(current_pos % Len(a.search_results)) + 1]]

\* App::next_search_result
next_search_result(a) ==
    LET current_pos == Position(a.search_results, a.selected_index) IN
    IF a.search_results = <<>> \/ current_pos = 0 THEN a
    ELSE IF current_pos + 1 <= Len(a.search_results)
         THEN LET sel == a.search_results[current_pos + 1] IN
              [a EXCEPT !.selected_index = sel,
                        !.scroll_offset = IF sel >= a.scroll_offset + PageSize
                                          THEN sel - PageSize + 1 ELSE @]
         ELSE a

\* App::prev_search_result
prev_search_result(a) ==
    LET current_pos == Position(a.search_results, a.selected_index) IN
    IF a.search_results = <<>> \/ current_pos = 0 THEN a
    ELSE IF current_pos > 1
         THEN LET sel == a.search_results[current_pos - 1] IN
              [a EXCEPT !.selected_index = sel,
                        !.scroll_offset = IF sel < a.scroll_offset
                                          THEN saturating_sub(sel, 1) ELSE @]
         ELSE a

\* mutant of clear_search: the query and the results go, the search stays on
clear_search_keeps_searching(a) ==
    [a EXCEPT !.search_query = <<>>, !.search_results = <<>>]

\* App::clear_search
clear_search(a) ==
    [a EXCEPT !.search_query = <<>>, !.search_results = <<>>, !.is_searching = FALSE]

\* App::toggle_sidebar
toggle_sidebar(a) == [a EXCEPT !.sidebar_visible = ~@]

\* App::panel_name
panel_name(a) == a.active_panel

\* App::next_panel
next_panel(a) ==
    LET p == CASE a.active_panel = "Files" -> "Branches"
               [] a.active_panel = "Branches" -> "Commits"
               [] OTHER -> "Files"
    IN [a EXCEPT !.active_panel = p, !.status_message = <<"Switched to {} panel", p>>]

\* App::prev_panel
prev_panel(a) ==
    LET p == CASE a.active_panel = "Files" -> "Commits"
               [] a.active_panel = "Branches" -> "Files"
               [] OTHER -> "Branches"
    IN [a EXCEPT !.active_panel = p, !.status_message = <<"Switched to {} panel", p>>]

command_matches(id, query) ==
    LET c == CommandById(id) IN
    \/ contains(to_lowercase(c.name), query)
    \/ contains(to_lowercase(c.description), query)
    \/ contains(c.action, query)

\* App::filter_command_palette
filter_command_palette(a) ==
    IF a.command_palette_input = <<>>
    THEN [a EXCEPT !.command_palette_results = get_all_commands]
    ELSE LET query == to_lowercase(a.command_palette_input) IN
         [a EXCEPT !.command_palette_results =
                        SelectSeq(get_all_commands, LAMBDA id : command_matches(id, query))]

\* App::open_command_palette
open_command_palette(a) ==
    [filter_command_palette([a EXCEPT !.view_mode = "CommandPalette",
                                      !.command_palette_input = <<>>])
        EXCEPT !.status_message = <<"Type to search commands">>]

\* mutant of move_down: the guard against the end of the list is missing
move_down_unguarded(a) ==
    LET sel == a.selected_index + 1 IN
    [a EXCEPT !.selected_index = sel,
              !.scroll_offset = IF sel >= a.scroll_offset + PageSize
                                THEN sel - PageSize + 1 ELSE @]

\* App::move_down
move_down(a) ==
    IF a.selected_index < saturating_sub(Len(a.commits), 1)
    THEN LET sel == a.selected_index + 1 IN
         [a EXCEPT !.selected_index = sel,
                   !.scroll_offset = IF sel >= a.scroll_offset + PageSize
                                     THEN sel - PageSize + 1 ELSE @]
    ELSE a

\* App::move_up
move_up(a) ==
    IF a.selected_index > 0
    THEN LET sel == saturating_sub(a.selected_index, 1) IN
         [a EXCEPT !.selected_index = sel,
                   !.scroll_offset = IF sel < a.scroll_offset
                                     THEN saturating_sub(sel, 1) ELSE @]
    ELSE a

\* App::page_down
page_down(a) ==
    LET max_index == saturating_sub(Len(a.commits), 1) IN
    [a EXCEPT !.selected_index = Min(a.selected_index + PageSize, max_index),
              !.scroll_offset = Min(a.scroll_offset + PageSize,
                                    saturating_sub(max_index, PageSize))]

\* App::page_up
page_up(a) ==
    [a EXCEPT !.selected_index = saturating_sub(a.selected_index, PageSize),
              !.scroll_offset = saturating_sub(a.scroll_offset, PageSize)]

\* App::go_to_start
go_to_start(a) == [a EXCEPT !.selected_index = 0, !.scroll_offset = 0]

\* App::go_to_end
go_to_end(a) ==
    IF a.commits # <<>>
    THEN [a EXCEPT !.selected_index = Len(a.commits) - 1,
                   !.scroll_offset = saturating_sub(Len(a.commits), PageSize)]
    ELSE a

(* Collaborator calls (openisl_git): their outcome is the environment's choice. *)
(* env = [diff, stage, status : "Ok" or "Err", files : what get_status returns] *)

\* fetch_diff that keeps the previous diff text when the fetch fails
fetch_diff_keeps_content_on_error(a, env) ==
    LET commit == selected_commit(a) IN
    IF commit = None THEN a
    ELSE IF a.repo_path /\ env.diff = "Ok"
         THEN [a EXCEPT !.diff_content = <<"diff of", commit[1].hash>>]
         ELSE a

\* App::fetch_diff (parse_diff recomputes diff_stats from diff_content)
fetch_diff(a, env) ==
    LET commit == selected_commit(a) IN
    IF commit = None THEN a
    ELSE IF a.repo_path
         THEN IF env.diff = "Ok"
              THEN [a EXCEPT !.diff_content = <<"diff of", commit[1].hash>>]
              ELSE [a EXCEPT !.diff_content = <<"Error fetching diff: {}", commit[1].hash>>]
         ELSE [a EXCEPT !.diff_content = <<"No repository path available">>]

\* refresh_files that empties the list when get_status fails
refresh_files_clears_on_error(a, env) ==
    IF a.repo_path
    THEN IF env.status = "Ok"
         THEN [a EXCEPT !.files = env.files]
         ELSE [a EXCEPT !.files = <<>>, !.status_message = <<"Error loading files: {}">>]
    ELSE a

\* App::refresh_files
refresh_files(a, env) ==
    IF a.repo_path
    THEN IF env.status = "Ok"
         THEN [a EXCEPT !.files = env.files]
         ELSE [a EXCEPT !.status_message = <<"Error loading files: {}">>]
    ELSE a

\* the body shared by stage_selected_file / unstage_selected_file
stage_or_unstage_selected(a, env, none_msg, ok_msg, err_msg) ==
    IF a.active_panel # "Files" THEN a
    ELSE IF a.files = <<>> THEN [a EXCEPT !.status_message = <<none_msg>>]
    ELSE LET file == Get(a.files, a.selected_file_index) IN
         IF file = None THEN a
         ELSE IF a.repo_path
              THEN IF env.stage = "Ok"
                   THEN refresh_files([a EXCEPT !.status_message = <<ok_msg, file[1].path>>], env)
                   ELSE [a EXCEPT !.status_message = <<err_msg>>]
              ELSE [a EXCEPT !.status_message = <<"No repository path available">>]

\* App::stage_selected_file
stage_selected_file(a, env) ==
    stage_or_unstage_selected(a, env, "No files to stage", "Staged: {}",
                              "Error staging file: {}")

\* App::unstage_selected_file
unstage_selected_file(a, env) ==
    stage_or_unstage_selected(a, env, "No files to unstage", "Unstaged: {}",
                              "Error unstaging file: {}")

StagedStatuses == {"ModifiedStaged", "AddedStaged", "DeletedStaged"}

\* toggle_file_stage without the test of the active panel
toggle_file_stage_any_panel(a, env) ==
    IF a.files = <<>> THEN [a EXCEPT !.status_message = <<"No files">>]
    ELSE LET file == Get(a.files, a.selected_file_index)
             b    == [a EXCEPT !.active_panel = "Files"]
         IN IF file = None THEN a
            ELSE [(IF file[1].status \in StagedStatuses
                   THEN unstage_selected_file(b, env)
                   ELSE stage_selected_file(b, env))
                    EXCEPT !.active_panel = a.active_panel]

\* App::toggle_file_stage
toggle_file_stage(a, env) ==
    IF a.active_panel # "Files" THEN a
    ELSE IF a.files = <<>> THEN [a EXCEPT !.status_message = <<"No files">>]
    ELSE LET file == Get(a.files, a.selected_file_index) IN
         IF file = None THEN a
         ELSE IF file[1].status \in StagedStatuses
              THEN unstage_selected_file(a, env)
              ELSE stage_selected_file(a, env)

\* the body shared by stage_all_files / unstage_all_files
stage_or_unstage_all(a, env, ok_msg, err_msg) ==
    IF a.repo_path
    THEN IF env.stage = "Ok"
         THEN refresh_files([a EXCEPT !.status_message = <<ok_msg>>], env)
         ELSE [a EXCEPT !.status_message = <<err_msg>>]
    ELSE [a EXCEPT !.status_message = <<"No repository path available">>]

\* App::stage_all_files
stage_all_files(a, env) ==
    stage_or_unstage_all(a, env, "Staged all files", "Error staging all files: {}")

\* App::unstage_all_files
unstage_all_files(a, env) ==
    stage_or_unstage_all(a, env, "Unstaged all files", "Error unstaging all files: {}")

\* the status line naming the selected commit (format!("..{}..", commit.short_hash))
with_commit_status(a, text) ==
    LET commit == selected_commit(a) IN
    IF commit = None THEN a
    ELSE [a EXCEPT !.status_message = <<text>> \o commit[1].short_hash]

\* the arms  KeyCode::Char('b') => { branch_input.clear(); view_mode = InputBranch; .. }
enter_branch_input(a) ==
    [a EXCEPT !.branch_input = <<>>,
              !.view_mode = "InputBranch",
              !.status_message = <<"Enter branch name (or Esc to cancel):">>]

\* the arms  "search" / KeyCode::Char('/') => { is_searching = true; search_query.clear() }
start_search(a) == [a EXCEPT !.is_searching = TRUE, !.search_query = <<>>]

\* App::handle_search_key
handle_search_key(a, key) ==
    IF key.code = "Esc" THEN Ret(clear_search(a), FALSE)
    ELSE IF key.code = "Enter"
         THEN Ret(IF a.search_results = <<>> THEN clear_search(a) ELSE a, FALSE)
    ELSE IF key.code = "Backspace"
         THEN Ret(search([a EXCEPT !.search_query = Pop(@)]), FALSE)
    ELSE IF IsChar(key, "n") /\ key.ctrl THEN Ret(next_search_result(a), FALSE)
    ELSE IF IsChar(key, "p") /\ key.ctrl THEN Ret(prev_search_result(a), FALSE)
    ELSE IF key.code = "Char"
         THEN IF is_ascii_alphanumeric(key.ch) \/ key.ch \in {"-", "_", " ", "."}
              THEN Ret(search([a EXCEPT !.search_query = Append(@, key.ch)]), FALSE)
              ELSE Ret(a, FALSE)
    ELSE Ret(a, FALSE)

\* the match of App::handle_list_key, arm by arm (a guarded arm that does not
\* apply falls through to the later arms); the function returns false after it
list_key_arms(a, key, env) ==
    IF IsChar(key, "j") \/ key.code = "Down" THEN move_down(a)
    ELSE IF IsChar(key, "k") \/ key.code = "Up" THEN move_up(a)
    ELSE IF key.code = "PageDown" THEN page_down(a)
    ELSE IF key.code = "PageUp" THEN page_up(a)
    ELSE IF key.code = "Home" THEN go_to_start(a)
    ELSE IF key.code = "End" THEN go_to_end(a)
    ELSE IF key.code = "Enter" THEN [a EXCEPT !.view_mode = "Details"]
    ELSE IF key.code = "Tab" THEN next_panel(a)
    ELSE IF key.code = "BackTab" THEN prev_panel(a)
    ELSE IF IsChar(key, "h") \/ key.code = "Left"
         THEN IF a.sidebar_visible THEN prev_panel(a) ELSE a
    ELSE IF IsChar(key, "l") \/ key.code = "Right"
         THEN IF a.sidebar_visible THEN next_panel(a) ELSE a
    ELSE IF IsChar(key, "b") /\ key.ctrl THEN toggle_sidebar(a)
    ELSE IF IsChar(key, "p") /\ key.ctrl THEN open_command_palette(a)
    ELSE IF IsChar(key, "/") THEN start_search(a)
    ELSE IF IsChar(key, "f")
         THEN [a EXCEPT !.filter_input = <<>>,
                        !.filter_mode = "Author",
                        !.view_mode = "Filter",
                        !.status_message =
                            <<"Filter by author (a), message (m), or date (d) - Esc to cancel">>]
    ELSE IF IsChar(key, "s") THEN [a EXCEPT !.view_mode = "Stats"]
    ELSE IF IsChar(key, "n") /\ key.ctrl THEN next_search_result(a)
    ELSE IF IsChar(key, "d") /\ key.shift
         THEN [fetch_diff(a, env) EXCEPT !.view_mode = "Diff"]
    ELSE IF IsChar(key, "c") THEN with_commit_status(a, "Would checkout {}...")
    ELSE IF IsChar(key, "b") THEN enter_branch_input(a)
    ELSE IF IsChar(key, "?") THEN [a EXCEPT !.view_mode = "Help"]
    ELSE IF IsChar(key, "r")
         THEN LET f == apply_filter(a) IN
              [f EXCEPT !.status_message =
                            <<"Filter: {} commits", ToString(Len(f.filtered_commits))>>]
    ELSE IF IsChar(key, "t") THEN [a EXCEPT !.theme = theme_next(@)]
    ELSE IF IsChar(key, " ")
         THEN IF a.active_panel = "Files" THEN toggle_file_stage(a, env) ELSE move_down(a)
    ELSE IF IsChar(key, "S") /\ key.ctrl THEN stage_all_files(a, env)
    ELSE IF IsChar(key, "U") /\ key.ctrl THEN unstage_all_files(a, env)
    ELSE a

\* mutant of handle_list_key: the arm Char('q') => return true is missing
handle_list_key_without_quit(a, key, env) ==
    IF a.is_searching THEN handle_search_key(a, key)
    ELSE Ret(list_key_arms(a, key, env), FALSE)

\* App::handle_list_key
handle_list_key(a, key, env) ==
    IF a.is_searching THEN handle_search_key(a, key)
    ELSE IF IsChar(key, "q") THEN Ret(a, TRUE)
    ELSE Ret(list_key_arms(a, key, env), FALSE)

\* App::handle_filter_key
handle_filter_key(a, key) ==
    IF key.code = "Esc"
    THEN Ret([clear_filter(a) EXCEPT !.view_mode = "List", !.status_message = <<>>], FALSE)
    ELSE IF key.code = "Enter"
    THEN LET f == apply_filter(a) IN
         Ret([f EXCEPT !.status_message =
                            <<"Filter: {} commits", ToString(Len(f.filtered_commits))>>,
                       !.view_mode = "List"], FALSE)
    ELSE IF key.code = "Backspace" THEN Ret([a EXCEPT !.filter_input = Pop(@)], FALSE)
    ELSE IF IsChar(key, "a")
    THEN Ret([a EXCEPT !.filter_mode = "Author",
                       !.status_message = <<"Filtering by author...">>], FALSE)
    ELSE IF IsChar(key, "m")
    THEN Ret([a EXCEPT !.filter_mode = "Message",
                       !.status_message = <<"Filtering by message...">>], FALSE)
    ELSE IF IsChar(key, "d")
    THEN Ret([a EXCEPT !.filter_mode = "Date",
                       !.status_message = <<"Filtering by date (YYYY-MM-DD)...">>], FALSE)
    ELSE IF key.code = "Char"
    THEN IF is_ascii_alphanumeric(key.ch) \/ key.ch \in {"-", "_", " ", ".", "@"}
         THEN Ret([a EXCEPT !.filter_input = Append(@, key.ch)], FALSE)
         ELSE Ret(a, FALSE)
    ELSE Ret(a, FALSE)

\* App::handle_stats_key
handle_stats_key(a, key) ==
    IF IsChar(key, "q") \/ key.code = "Esc" \/ key.code = "Enter"
    THEN Ret([a EXCEPT !.view_mode = "List"], FALSE)
    ELSE Ret(a, FALSE)

\* App::execute_command
execute_command(a, action, env) ==
    CASE action = "toggle_sidebar" -> toggle_sidebar(a)
      [] action = "next_panel" -> next_panel(a)
      [] action = "prev_panel" -> prev_panel(a)
      [] action = "move_up" -> move_up(a)
      [] action = "move_down" -> move_down(a)
      [] action = "go_to_start" -> go_to_start(a)
      [] action = "go_to_end" -> go_to_end(a)
      [] action = "view_details" -> [a EXCEPT !.view_mode = "Details"]
      [] action = "search" -> start_search(a)
      [] action = "toggle_stage" -> toggle_file_stage(a, env)
      [] action = "stage_all" -> stage_all_files(a, env)
      [] action = "unstage_all" -> unstage_all_files(a, env)
      [] action = "toggle_theme" -> [a EXCEPT !.theme = theme_next(@)]
      [] action = "help" -> [a EXCEPT !.view_mode = "Help"]
      [] OTHER -> a

\* handle_command_palette_key whose Enter runs the last entry of the results
handle_command_palette_key_runs_last(a, key, env) ==
    IF key.code = "Esc"
    THEN Ret([a EXCEPT !.view_mode = "List", !.status_message = <<>>], FALSE)
    ELSE IF key.code = "Enter"
    THEN LET x == IF a.command_palette_results # <<>>
                  THEN execute_command(a, a.command_palette_results[
                                              Len(a.command_palette_results)], env)
                  ELSE a
         IN Ret([x EXCEPT !.view_mode = "List", !.status_message = <<>>], FALSE)
    ELSE IF key.code = "Backspace"
    THEN Ret(filter_command_palette([a EXCEPT !.command_palette_input = Pop(@)]), FALSE)
    ELSE IF key.code = "Char"
    THEN Ret(filter_command_palette(
                [a EXCEPT !.command_palette_input = Append(@, key.ch)]), FALSE)
    ELSE IF key.code = "Up"
    THEN Ret([a EXCEPT !.command_palette_results = rotate_right(@)], FALSE)
    ELSE IF key.code = "Down"
    THEN Ret([a EXCEPT !.command_palette_results = rotate_left(@)], FALSE)
    ELSE Ret(a, FALSE)

\* App::handle_command_palette_key
handle_command_palette_key(a, key, env) ==
    IF key.code = "Esc"
    THEN Ret([a EXCEPT !.view_mode = "List", !.status_message = <<>>], FALSE)
    ELSE IF key.code = "Enter"
    THEN LET x == IF a.command_palette_results # <<>>
                  THEN execute_command(a, a.command_palette_results[1], env)
                  ELSE a
         IN Ret([x EXCEPT !.view_mode = "List", !.status_message = <<>>], FALSE)
    ELSE IF key.code = "Backspace"
    THEN Ret(filter_command_palette([a EXCEPT !.command_palette_input = Pop(@)]), FALSE)
    ELSE IF key.code = "Char"
    THEN Ret(filter_command_palette(
                [a EXCEPT !.command_palette_input = Append(@, key.ch)]), FALSE)
    ELSE IF key.code = "Up"
    THEN Ret([a EXCEPT !.command_palette_results = rotate_right(@)], FALSE)
    ELSE IF key.code = "Down"
    THEN Ret([a EXCEPT !.command_palette_results = rotate_left(@)], FALSE)
    ELSE Ret(a, FALSE)

\* mutant of handle_details_key: 'q' terminates instead of returning to the list
handle_details_key_quits(a, key, env) ==
    IF IsChar(key, "q") THEN Ret(a, TRUE)
    ELSE IF key.code = "Esc" THEN Ret([a EXCEPT !.view_mode = "List"], FALSE)
    ELSE Ret(a, FALSE)

\* App::handle_details_key
handle_details_key(a, key, env) ==
    IF IsChar(key, "q") \/ key.code = "Esc" THEN Ret([a EXCEPT !.view_mode = "List"], FALSE)
    ELSE IF IsChar(key, "j") \/ key.code = "Down" THEN Ret(move_down(a), FALSE)
    ELSE IF IsChar(key, "k") \/ key.code = "Up" THEN Ret(move_up(a), FALSE)
    ELSE IF IsChar(key, "c") THEN Ret(with_commit_status(a, "Would checkout {}!"), FALSE)
    ELSE IF IsChar(key, "b") THEN Ret(enter_branch_input(a), FALSE)
    ELSE IF IsChar(key, "d") /\ key.shift
         THEN Ret([fetch_diff(a, env) EXCEPT !.view_mode = "Diff"], FALSE)
    ELSE Ret(a, FALSE)

\* App::handle_input_key
handle_input_key(a, key) ==
    IF key.code = "Esc"
    THEN Ret([a EXCEPT !.view_mode = "List",
                       !.branch_input = <<>>,
                       !.status_message = <<>>], FALSE)
    ELSE IF key.code = "Enter"
    THEN LET commit == selected_commit(a)
             x == IF a.branch_input # <<>> /\ commit # None
                  THEN [a EXCEPT !.status_message =
                            <<"Created branch '{}' from {}">> \o a.branch_input
                                \o commit[1].short_hash]
                  ELSE a
         IN Ret([x EXCEPT !.branch_input = <<>>, !.view_mode = "List"], FALSE)
    ELSE IF key.code = "Backspace" THEN Ret([a EXCEPT !.branch_input = Pop(@)], FALSE)
    ELSE IF key.code = "Char"
    THEN IF is_ascii_alphanumeric(key.ch) \/ key.ch \in {"-", "_", "/"}
         THEN Ret([a EXCEPT !.branch_input = Append(@, key.ch)], FALSE)
         ELSE Ret(a, FALSE)
    ELSE Ret(a, FALSE)

\* App::handle_diff_key
handle_diff_key(a, key) ==
    IF IsChar(key, "q") \/ key.code = "Esc" THEN Ret([a EXCEPT !.view_mode = "List"], FALSE)
    ELSE IF IsChar(key, "?") THEN Ret([a EXCEPT !.view_mode = "Help"], FALSE)
    ELSE Ret(a, FALSE)

\* mutant of handle_help_key: no key closes the help
handle_help_key_stays(a, key) == Ret(a, FALSE)

\* App::handle_help_key
handle_help_key(a, key) ==
    IF IsChar(key, "q") \/ key.code = "Esc" \/ IsChar(key, "?")
    THEN Ret([a EXCEPT !.view_mode = "List"], FALSE)
    ELSE Ret(a, FALSE)

\* App::handle_key
handle_key(a, key, env) ==
    CASE a.view_mode = "List" -> handle_list_key(a, key, env)
      [] a.view_mode = "Details" -> handle_details_key(a, key, env)
      [] a.view_mode = "Diff" -> handle_diff_key(a, key)
      [] a.view_mode = "Help" -> handle_help_key(a, key)
      [] a.view_mode = "InputBranch" -> handle_input_key(a, key)
      [] a.view_mode = "Search" -> handle_search_key(a, key)
      [] a.view_mode = "Filter" -> handle_filter_key(a, key)
      [] a.view_mode = "Stats" -> handle_stats_key(a, key)
      [] a.view_mode = "CommandPalette" -> handle_command_palette_key(a, key, env)

(* Mouse events: crossterm MouseEvent { kind, column, row }; `elapsed` is the *)
(* time in milliseconds since the previous left click (Instant::now() minus   *)
(* last_click_time), which the environment decides.                            *)

\* App::handle_sidebar_click
handle_sidebar_click(a, m) ==
    IF m.column < SidebarWidth
    THEN [a EXCEPT !.active_panel = IF m.row < 3 THEN "Files"
                                    ELSE IF m.row < 6 THEN "Branches"
                                    ELSE "Commits"]
    ELSE a

\* App::handle_main_area_click
handle_main_area_click(a, m) ==
    IF m.row >= HeaderHeight /\ m.row < HeaderHeight + MouseItemsPerPage
    THEN LET clicked_index == a.scroll_offset + (m.row - HeaderHeight) IN
         IF clicked_index < Len(a.commits)
         THEN [a EXCEPT !.selected_index = clicked_index]
         ELSE a
    ELSE a

\* App::handle_double_click
handle_double_click(a) ==
    IF a.view_mode = "List"
    THEN [a EXCEPT !.view_mode = "Details",
                   !.status_message = <<"Double-click: viewing details">>]
    ELSE a

\* handle_left_click for which 300 ms after the previous click is still double
handle_left_click_at_limit(a, m) ==
    LET is_double_click ==
            /\ a.last_click_position # None
            /\ a.last_click_time # None
            /\ a.last_click_position = Some(<<m.column, m.row>>)
            /\ m.elapsed <= DoubleClickMillis
        a1 == [a EXCEPT !.last_click_position = Some(<<m.column, m.row>>),
                        !.last_click_time = Some("now")]
        a2 == IF a1.sidebar_visible THEN handle_sidebar_click(a1, m)
              ELSE handle_main_area_click(a1, m)
    IN IF is_double_click THEN handle_double_click(a2) ELSE a2

\* App::handle_left_click
handle_left_click(a, m) ==
    LET is_double_click ==
            /\ a.last_click_position # None
            /\ a.last_click_time # None
            /\ a.last_click_position = Some(<<m.column, m.row>>)
            /\ m.elapsed < DoubleClickMillis
        a1 == [a EXCEPT !.last_click_position = Some(<<m.column, m.row>>),
                        !.last_click_time = Some("now")]
        a2 == IF a1.sidebar_visible THEN handle_sidebar_click(a1, m)
              ELSE handle_main_area_click(a1, m)
    IN IF is_double_click THEN handle_double_click(a2) ELSE a2

\* App::handle_right_click
handle_right_click(a) ==
    [a EXCEPT !.status_message = <<"Right click - use left click to select">>]

\* mutant of mouse_scroll_down: the selection moves one row without clamping
mouse_scroll_down_unclamped(a) == [a EXCEPT !.selected_index = @ + 1]

\* App::mouse_scroll_down
mouse_scroll_down(a) ==
    LET max_index == saturating_sub(Len(a.commits), 1) IN
    IF a.selected_index < max_index
    THEN LET sel == a.selected_index + 1 IN
         [a EXCEPT !.selected_index = sel,
                   !.scroll_offset = IF sel >= a.scroll_offset + MouseItemsPerPage
                                     THEN saturating_sub(sel, MouseItemsPerPage - 1)
                                     ELSE @]
    ELSE a

\* App::mouse_scroll_up
mouse_scroll_up(a) ==
    IF a.selected_index > 0
    THEN LET sel == saturating_sub(a.selected_index, 1) IN
         [a EXCEPT !.selected_index = sel,
                   !.scroll_offset = IF sel < a.scroll_offset
                                     THEN saturating_sub(sel, 1) ELSE @]
    ELSE a

\* App::handle_mouse
handle_mouse(a, m) ==
    CASE m.kind = "LeftDown" -> Ret(handle_left_click(a, m), FALSE)
      [] m.kind = "RightDown" -> Ret(handle_right_click(a), FALSE)
      [] m.kind = "ScrollDown" -> Ret(mouse_scroll_down(a), FALSE)
      [] m.kind = "ScrollUp" -> Ret(mouse_scroll_up(a), FALSE)
      [] OTHER -> Ret(a, FALSE)

\* the match of run_tui on the event read: Key, Mouse, or an ignored event
handle_event(a, e, env) ==
    CASE e.type = "Key" -> handle_key(a, e.key, env)
      [] e.type = "Mouse" -> Ret(handle_mouse(a, e.mouse).app, FALSE)
      [] OTHER -> Ret(a, FALSE)

----------------------------------------------------------------------------
(* Repository statistics: App::calculate_stats, called by App::new and by    *)
(* set_commits. Time is counted in days.                                     *)

OneDay == 1
OneWeek == 7
OneMonth == 30

\* RepoStats::default()
RepoStatsDefault ==
    [total_commits      |-> 0,
     total_authors      |-> 0,
     commits_by_author  |-> <<>>,
     commits_today      |-> 0,
     commits_this_week  |-> 0,
     commits_this_month |-> 0]

\* number of the commits dated at most `days` before the clock t
\* (now.signed_duration_since(commit.date) <= days)
CountSince(commits, t, days) ==
    Cardinality({i \in 1..Len(commits) : t - commits[i].date <= days})

\* the HashMap author_counts: its keys and the count of each
AuthorsOf(commits) == {commits[i].author : i \in 1..Len(commits)}

author_counts(commits, author) ==
    Cardinality({i \in 1..Len(commits) : commits[i].author = author})

\* the orders in which a HashMap with these keys may be iterated
IterationOrders(keys) ==
    {o \in [1..Cardinality(keys) -> keys] : Range(o) = keys}

\* Vec::sort_by_key(|(_, count)| Reverse(*count)): stable, larger counts first
RECURSIVE sort_by_count(_)
sort_by_count(pairs) ==
    IF pairs = <<>> THEN <<>>
    ELSE LET rest == sort_by_count(SubSeq(pairs, 1, Len(pairs) - 1))
             last == pairs[Len(pairs)]
             ahead == Cardinality({i \in 1..Len(rest) : rest[i][2] >= last[2]})
         IN SubSeq(rest, 1, ahead) \o <<last>> \o SubSeq(rest, ahead + 1, Len(rest))

\* App::calculate_stats over the commit list, at clock t, the HashMap being
\* iterated in the order `order`
calculate_stats(st, commits, t, order) ==
    LET commits_by_author ==
            sort_by_count([k \in 1..Len(order) |->
                              <<order[k], author_counts(commits, order[k])>>])
    IN [total_commits      |-> Len(commits),
        total_authors      |-> Len(commits_by_author),
        commits_by_author  |-> commits_by_author,
        commits_today      |-> st.commits_today + CountSince(commits, t, OneDay),
        commits_this_week  |-> st.commits_this_week + CountSince(commits, t, OneWeek),
        commits_this_month |-> st.commits_this_month + CountSince(commits, t, OneMonth)]

\* the statistics are not part of the specification at hand
StatsIdle ==
    /\ stats_commits = <<>>
    /\ stats = RepoStatsDefault
    /\ stats_calls = 0
    /\ now = 0

----------------------------------------------------------------------------
(* Diff parser, src/tui/src/diff.rs *)

\* DiffStats::default()
DiffStatsDefault ==
    [additions |-> 0, deletions |-> 0, files_changed |-> 0, net_change |-> 0,
     current_file |-> <<>>]

\* line_type_of that tests the leading '+' and '-' before the file headers
line_type_of_sign_first(line) ==
    IF line = <<>> THEN "Context"
    ELSE IF starts_with(line, <<"+">>) THEN "Addition"
    ELSE IF starts_with(line, <<"-">>) THEN "Deletion"
    ELSE IF starts_with(line, <<"d","i","f","f"," ","-","-","g","i","t">>) THEN "Header"
    ELSE IF starts_with(line, <<"i","n","d","e","x"," ">>) THEN "Meta"
    ELSE IF starts_with(line, <<"@","@">>) THEN "HunkHeader"
    ELSE "Context"

\* the line type DiffParser::parse gives a line of the diff text
line_type_of(line) ==
    IF line = <<>> THEN "Context"
    ELSE IF starts_with(line, <<"d","i","f","f"," ","-","-","g","i","t">>) THEN "Header"
    ELSE IF starts_with(line, <<"i","n","d","e","x"," ">>) THEN "Meta"
    ELSE IF starts_with(line, <<"+","+","+">>) \/ starts_with(line, <<"-","-","-">>) THEN "Header"
    ELSE IF starts_with(line, <<"@","@">>) THEN "HunkHeader"
    ELSE IF starts_with(line, <<"+">>) /\ ~starts_with(line, <<"+","+","+">>) THEN "Addition"
    ELSE IF starts_with(line, <<"-">>) /\ ~starts_with(line, <<"-","-","-">>) THEN "Deletion"
    ELSE "Context"

\* the loop of parse over content[1..k]: the lines pushed so far and the
\* value of line_number after them
RECURSIVE parse_loop(_, _)
parse_loop(content, k) ==
    IF k = 0 THEN [lines |-> <<>>, line_number |-> 1]
    ELSE LET acc       == parse_loop(content, k - 1)
             line_type == line_type_of(content[k])
         IN [lines       |-> Append(acc.lines,
                                    [content     |-> content[k],
                                     line_type   |-> line_type,
                                     line_number |-> Some(acc.line_number)]),
             line_number |-> IF line_type # "Deletion"
                             THEN acc.line_number + 1 ELSE acc.line_number]

\* parse whose line counter advances after Deletion lines as well
parse_counting_deletions(content) ==
    [k \in 1..Len(content) |->
        [content     |-> content[k],
         line_type   |-> line_type_of(content[k]),
         line_number |-> Some(k)]]

\* DiffParser::parse
parse(content) == parse_loop(content, Len(content)).lines

\* str::strip_prefix : Some(rest) or None
strip_prefix(s, prefix) ==
    IF starts_with(s, prefix) THEN Some(SubSeq(s, Len(prefix) + 1, Len(s))) ELSE None

\* the loop of count_stats over lines[1..k]
RECURSIVE count_lines(_, _)
count_lines(lines, k) ==
    IF k = 0
    THEN [additions |-> 0, deletions |-> 0, files_changed |-> 0, current_file |-> <<>>]
    ELSE LET acc  == count_lines(lines, k - 1)
             line == lines[k]
         IN CASE line.line_type = "Addition" -> [acc EXCEPT !.additions = @ + 1]
              [] line.line_type = "Deletion" -> [acc EXCEPT !.deletions = @ + 1]
              [] line.line_type = "Header" ->
                    IF starts_with(line.content, <<"+","+","+">>)
                    THEN LET path == strip_prefix(line.content, <<"+","+","+"," ","b","/">>) IN
                         [acc EXCEPT !.files_changed = @ + 1,
                                     !.current_file = IF path # None THEN path[1] ELSE @]
                    ELSE acc
              [] OTHER -> acc

\* count_stats whose files_changed is not floored at 1
count_stats_without_floor(lines) ==
    LET acc == count_lines(lines, Len(lines)) IN
    [additions     |-> acc.additions,
     deletions     |-> acc.deletions,
     files_changed |-> acc.files_changed,
     net_change    |-> saturating_sub(acc.additions, acc.deletions),
     current_file  |-> acc.current_file]

\* DiffParser::count_stats
count_stats(lines) ==
    LET acc == count_lines(lines, Len(lines)) IN
    [additions     |-> acc.additions,
     deletions     |-> acc.deletions,
     files_changed |-> Max(acc.files_changed, 1),
     net_change    |-> saturating_sub(acc.additions, acc.deletions),
     current_file  |-> acc.current_file]

-----------------------------------------------------------------------------
(* Syntax highlighting of one line, src/tui/src/diff.rs. A colour is its     *)
(* Rgb triple; the style of a span is None (Span::raw) or Some(foreground).  *)

\* get_syntax_colors
get_syntax_colors(dark_theme) ==
    IF dark_theme
    THEN [keyword    |-> <<189, 147, 249>>,
          string     |-> <<166, 227, 161>>,
          comment    |-> <<129, 161, 193>>,
          function   |-> <<136, 192, 208>>,
          number     |-> <<243, 139, 168>>,
          type_color |-> <<235, 203, 139>>,
          attribute  |-> <<249, 226, 175>>]
    ELSE [keyword    |-> <<155, 89, 182>>,
          string     |-> <<39, 174, 96>>,
          comment    |-> <<149, 165, 166>>,
          function   |-> <<41, 128, 185>>,
          number     |-> <<192, 57, 43>>,
          type_color |-> <<241, 196, 15>>,
          attribute  |-> <<230, 126, 34>>]

\* Span::raw
SpanRaw(content) == [content |-> content, style |-> None]

\* Span::styled(content, Style::default().fg(fg))
SpanStyled(content, fg) == [content |-> content, style |-> Some(fg)]

\* get_keywords: the keys of the table of the language
get_keywords(language) ==
    CASE language = "rust" ->
            {"as", "async", "await", "break", "const", "continue", "crate",
             "dyn", "else", "enum", "extern", "false", "fn", "for", "if",
             "impl", "in", "let", "loop", "match", "mod", "move", "mut",
             "pub", "ref", "return", "self", "Self", "static", "struct",
             "super", "trait", "true", "type", "unsafe", "use", "where"}
      [] language \in {"python", "ruby"} ->
            {"def", "class", "if", "elif", "else", "while", "for", "in",
             "return", "import", "from", "as", "try", "except", "finally",
             "raise", "with", "lambda", "True", "False", "None", "and", "or",
             "not"}
      [] language \in {"javascript", "typescript"} ->
            {"const", "let", "var", "function", "async", "await", "if",
             "else", "for", "while", "do", "switch", "case", "break",
             "continue", "return", "try", "catch", "finally", "throw", "new",
             "class", "extends", "import", "export", "from", "default",
             "typeof", "instanceof", "this", "true", "false", "null",
             "undefined"}
      [] language = "go" ->
            {"package", "import", "func", "var", "const", "type", "struct",
             "interface", "map", "chan", "if", "else", "for", "range",
             "switch", "case", "default", "break", "continue", "return", "go",
             "defer", "select", "true", "false", "nil"}
      [] language = "java" ->
            {"public", "private", "protected", "static", "final", "abstract",
             "class", "interface", "enum", "extends", "implements", "new",
             "this", "super", "if", "else", "for", "while", "do", "switch",
             "case", "default", "break", "continue", "return", "throw",
             "throws", "try", "catch", "finally", "import", "package", "void",
             "int", "long", "double", "float", "boolean", "char", "byte",
             "short", "true", "false", "null"}
      [] language \in {"c", "cpp"} ->
            {"int", "char", "void", "float", "double", "long", "short",
             "unsigned", "signed", "const", "static", "extern", "volatile",
             "sizeof", "typedef", "struct", "union", "enum", "if", "else",
             "for", "while", "do", "switch", "case", "default", "break",
             "continue", "return", "goto", "include", "define", "ifdef",
             "ifndef", "endif", "NULL"}
      [] language = "csharp" ->
            {"using", "namespace", "class", "struct", "interface", "enum",
             "public", "private", "protected", "internal", "static",
             "readonly", "const", "new", "virtual", "override", "abstract",
             "sealed", "partial", "void", "int", "long", "double", "float",
             "bool", "string", "var", "if", "else", "for", "foreach", "while",
             "do", "switch", "case", "default", "break", "continue", "return",
             "try", "catch", "finally", "throw", "true", "false", "null"}
      [] language = "swift" ->
            {"import", "class", "struct", "enum", "protocol", "extension",
             "func", "var", "let", "static", "public", "private", "internal",
             "open", "final", "override", "mutating", "nonmutating", "lazy",
             "if", "else", "guard", "switch", "case", "default", "for",
             "while", "repeat", "break", "continue", "return", "throw",
             "throws", "try", "catch", "init", "deinit", "self", "Self",
             "nil", "true", "false"}
      [] language = "kotlin" ->
            {"package", "import", "class", "object", "interface", "data",
             "sealed", "enum", "annotation", "fun", "val", "var", "const",
             "lateinit", "by", "companion", "open", "abstract", "final",
             "override", "private", "protected", "public", "internal",
             "suspend", "inline", "reified", "noinline", "crossinline", "out",
             "in", "where", "if", "else", "when", "for", "while", "do",
             "return", "break", "continue", "throw", "try", "catch",
             "finally", "this", "null", "true", "false", "is", "as", "as?"}
      [] OTHER -> {}
\* get_types: the keys of the table of the language
get_types(language) ==
    CASE language = "rust" ->
            {"String", "Vec", "Option", "Result", "Box", "Rc", "Arc", "Cell",
             "RefCell", "Cow", "HashMap", "HashSet", "BTreeMap", "BTreeSet",
             "LinkedList", "VecDeque", "BinaryHeap", "i8", "i16", "i32",
             "i64", "i128", "u8", "u16", "u32", "u64", "u128", "usize",
             "isize", "f32", "f64", "bool", "char", "str", "Path", "PathBuf",
             "OsString", "CString", "Duration", "SystemTime"}
      [] language \in {"python", "ruby"} ->
            {"int", "float", "str", "bool", "list", "dict", "tuple", "set",
             "bytes", "bytearray", "range", "memoryview", "type", "object",
             "Exception"}
      [] language \in {"javascript", "typescript"} ->
            {"string", "number", "boolean", "undefined", "null", "symbol",
             "bigint", "any", "void", "never", "unknown", "object", "Array",
             "Promise", "Map", "Set", "WeakMap", "WeakSet"}
      [] language = "go" ->
            {"string", "int", "int8", "int16", "int32", "int64", "uint",
             "uint8", "uint16", "uint32", "uint64", "uintptr", "float32",
             "float64", "complex64", "complex128", "bool", "byte", "rune",
             "error", "interface", "struct", "chan", "map", "func"}
      [] language \in {"java", "csharp"} ->
            {"String", "Integer", "int", "Long", "long", "Double", "double",
             "Float", "float", "Boolean", "boolean", "Character", "char",
             "Byte", "byte", "Short", "short", "Object", "List", "ArrayList",
             "Map", "HashMap", "Set", "HashSet", "Collection", "Iterator",
             "Exception"}
      [] language \in {"c", "cpp"} ->
            {"FILE", "size_t", "ssize_t", "intptr_t", "uintptr_t", "bool",
             "wchar_t"}
      [] OTHER -> {}
\* char::is_whitespace, for the characters of the model
is_whitespace(c) == c \in {" ", "\t"}

\* str::trim_start
RECURSIVE trim_start(_)
trim_start(s) ==
    IF s # <<>> /\ is_whitespace(s[1]) THEN trim_start(Tail(s)) ELSE s

\* str::trim
trim(s) == Reverse(trim_start(Reverse(trim_start(s))))

\* the String with these characters
RECURSIVE StringOf(_)
StringOf(s) == IF s = <<>> THEN "" ELSE s[1] \o StringOf(Tail(s))

\* classify_token
classify_token(token, keywords, types, colors) ==
    LET trimmed == trim(token) IN
    IF StringOf(trimmed) \in keywords THEN SpanStyled(token, colors.keyword)
    ELSE IF StringOf(trimmed) \in types THEN SpanStyled(token, colors.type_color)
    ELSE IF \A i \in 1..Len(trimmed) : trimmed[i] \in Digits \cup {".", "x", "X", "o", "b"}
    THEN SpanStyled(token, colors.number)
    ELSE SpanRaw(token)

\* the locals of highlight_line before the loop
HighlightStart ==
    [spans |-> <<>>, current |-> <<>>, in_string |-> FALSE, in_char |-> FALSE,
     in_comment |-> FALSE, string_char |-> "", stopped |-> FALSE]

\* highlight_line: `if !current.is_empty() { spans.push(classify_token(..)); current.clear() }`
push_token(st, keywords, types, colors) ==
    IF st.current # <<>>
    THEN [st EXCEPT !.spans = Append(@, classify_token(st.current, keywords, types, colors)),
                    !.current = <<>>]
    ELSE st

\* highlight_line: the body of the loop for the character at index idx
highlight_char(st, line, idx, keywords, types, colors) ==
    LET ch   == line[idx + 1]
        next == Get(line, idx + 1)
    IN
    IF st.in_comment
    THEN IF ch = "*" /\ next = Some("/")
         THEN [st EXCEPT !.spans = Append(@, SpanStyled(st.current, colors.comment)),
                         !.current = <<>>,
                         !.in_comment = FALSE]
         ELSE [st EXCEPT !.current = Append(@, ch)]
    ELSE IF st.in_string \/ st.in_char
    THEN IF ch = "\\" /\ idx + 1 < Len(line)
         THEN [st EXCEPT !.current = Append(Append(@, ch), line[idx + 2])]
         ELSE IF ch = st.string_char
         THEN [st EXCEPT !.spans = Append(@, SpanStyled(Append(st.current, ch),
                                                        colors.string)),
                         !.current = <<>>,
                         !.in_string = FALSE,
                         !.in_char = FALSE]
         ELSE [st EXCEPT !.current = Append(@, ch)]
    ELSE IF ch = "\""
    THEN [push_token(st, keywords, types, colors)
             EXCEPT !.in_string = TRUE, !.string_char = "\"", !.current = <<ch>>]
    ELSE IF ch = "'"
    THEN [push_token(st, keywords, types, colors)
             EXCEPT !.in_char = TRUE, !.string_char = "'", !.current = <<ch>>]
    ELSE IF ch = "/" /\ next = Some("/")
    THEN [push_token(st, keywords, types, colors)
             EXCEPT !.spans = Append(@, SpanStyled(SubSeq(line, idx + 1, Len(line)),
                                                   colors.comment)),
                    !.stopped = TRUE]
    ELSE IF ch = "/" /\ next = Some("*")
    THEN [push_token(st, keywords, types, colors)
             EXCEPT !.current = <<ch>>, !.in_comment = TRUE]
    ELSE [st EXCEPT !.current = Append(@, ch)]

\* highlight_line: the loop over the first k characters, left by `break`
RECURSIVE highlight_loop(_, _, _, _, _)
highlight_loop(line, k, keywords, types, colors) ==
    IF k = 0 THEN HighlightStart
    ELSE LET st == highlight_loop(line, k - 1, keywords, types, colors) IN
         IF st.stopped THEN st
         ELSE highlight_char(st, line, k - 1, keywords, types, colors)

\* highlight_line
highlight_line(line, language, colors) ==
    LET keywords == get_keywords(language)
        types    == get_types(language)
        st       == highlight_loop(line, Len(line), keywords, types, colors)
        spans    ==
            IF st.current # <<>> /\ ~st.in_comment /\ ~st.in_string /\ ~st.in_char
            THEN Append(st.spans, classify_token(st.current, keywords, types, colors))
            ELSE IF st.in_string \/ st.in_char \/ st.in_comment
            THEN Append(st.spans,
                        SpanStyled(st.current,
                                   IF st.in_comment THEN colors.comment ELSE colors.string))
            ELSE st.spans
    IN IF spans = <<>> THEN <<SpanRaw(line)>> ELSE spans

\* apply_syntax_highlighting that sends every language to highlight_line
apply_syntax_highlighting_every_language(content, language, is_addition, dark_theme) ==
    [spans |-> IF trim(content) = <<>>
               THEN <<SpanRaw(content)>>
               ELSE highlight_line(content, language, get_syntax_colors(dark_theme)),
     style |-> IF is_addition THEN "BOLD" ELSE "DIM"]

\* DiffParser::apply_syntax_highlighting: the Line, its spans and its own style
apply_syntax_highlighting(content, language, is_addition, dark_theme) ==
    LET theme_colors == get_syntax_colors(dark_theme) IN
    [spans |-> IF language = "plaintext" \/ trim(content) = <<>>
               THEN <<SpanRaw(content)>>
               ELSE highlight_line(content, language, theme_colors),
     style |-> IF is_addition THEN "BOLD" ELSE "DIM"]

\* the last index of character c in s, 0 when there is none
LastIndexOf(s, c) ==
    IF \E i \in 1..Len(s) : s[i] = c
    THEN CHOOSE i \in 1..Len(s) : s[i] = c /\ \A j \in (i + 1)..Len(s) : s[j] # c
    ELSE 0

\* Path::file_name of a path that does not end in a separator
file_name(path) ==
    LET name == SubSeq(path, LastIndexOf(path, "/") + 1, Len(path)) IN
    IF name \in {<<>>, <<".">>, <<".", ".">>} THEN None ELSE Some(name)

\* Path::extension: the part of the file name after its last dot, None when
\* there is no dot or the only dot starts the name
extension(path) ==
    LET name == file_name(path) IN
    IF name = None THEN None
    ELSE LET dot == LastIndexOf(name[1], ".") IN
         IF dot <= 1 THEN None
         ELSE Some(SubSeq(name[1], dot + 1, Len(name[1])))

\* the match of detect_language on the lowercased extension
language_of_extension(ext) ==
    CASE ext = "rs" -> "rust"
      [] ext = "py" -> "python"
      [] ext \in {"js", "ts", "jsx", "tsx"} -> "javascript"
      [] ext = "go" -> "go"
      [] ext = "java" -> "java"
      [] ext \in {"c", "h"} -> "c"
      [] ext \in {"cpp", "cc", "cxx", "hpp"} -> "cpp"
      [] ext = "cs" -> "csharp"
      [] ext = "rb" -> "ruby"
      [] ext = "php" -> "php"
      [] ext = "swift" -> "swift"
      [] ext \in {"kt", "kts"} -> "kotlin"
      [] ext = "scala" -> "scala"
      [] ext \in {"html", "htm"} -> "html"
      [] ext = "css" -> "css"
      [] ext \in {"scss", "sass"} -> "scss"
      [] ext = "json" -> "json"
      [] ext \in {"yaml", "yml"} -> "yaml"
      [] ext = "xml" -> "xml"
      [] ext \in {"sh", "bash", "zsh"} -> "bash"
      [] ext = "toml" -> "toml"
      [] ext = "md" -> "markdown"
      [] ext = "sql" -> "sql"
      [] ext = "r" -> "r"
      [] ext = "lua" -> "lua"
      [] ext \in {"perl", "pl"} -> "perl"
      [] ext \in {"ex", "exs"} -> "elixir"
      [] ext \in {"erl", "hrl"} -> "erlang"
      [] ext \in {"clj", "cljs", "cljc"} -> "clojure"
      [] ext = "hs" -> "haskell"
      [] ext \in {"ml", "mli"} -> "ocaml"
      [] ext \in {"fs", "fsi", "fsx"} -> "fsharp"
      [] ext = "nim" -> "nim"
      [] ext \in {"v", "vv"} -> "v"
      [] ext = "zig" -> "zig"
      [] OTHER -> "plaintext"

\* DiffParser::detect_language
detect_language(file_path) ==
    LET e   == extension(file_path)
        ext == to_lowercase(IF e = None THEN <<>> ELSE e[1])
    IN language_of_extension(StringOf(ext))

\* the highlighter is not part of the specification at hand
HighlightIdle ==
    /\ hl_args = [file_path |-> <<>>, content |-> <<>>,
                  is_addition |-> FALSE, dark_theme |-> FALSE]
    /\ hl_language = "plaintext"
    /\ hl_line = None
    /\ hl_pc = "styled"

\* the diff parser is not part of the specification at hand
DiffIdle ==
    /\ diff_content = <<>>
    /\ diff_lines = <<>>
    /\ diff_stats = DiffStatsDefault
    /\ diff_pc = "counted"
    /\ HighlightIdle

----------------------------------------------------------------------------
(* The event loop of run_tui: one event per iteration, until a key handler  *)
(* returns the terminate flag.                                              *)

NoKey == Key("None")

NoMouse == [kind |-> "None", column |-> 0, row |-> 0, elapsed |-> 0]

KeyEv(k) == [type |-> "Key", key |-> k, mouse |-> NoMouse]

MouseEv(m) == [type |-> "Mouse", key |-> NoKey, mouse |-> m]

\* Event::Resize, FocusGained, FocusLost, Paste
OtherEv == [type |-> "Other", key |-> NoKey, mouse |-> NoMouse]

\* no event read yet
NoEvent == [type |-> "None", key |-> NoKey, mouse |-> NoMouse]

Mouse(kind, column, row, elapsed) ==
    [kind |-> kind, column |-> column, row |-> row, elapsed |-> elapsed]

\* what the handlers of the previous event started from
Snapshot(a) ==
    [view_mode               |-> a.view_mode,
     is_searching            |-> a.is_searching,
     selected_index          |-> a.selected_index,
     scroll_offset           |-> a.scroll_offset]

\* the four text buffers hold at most MaxInput characters together
InputLength(a) ==
    Len(a.branch_input) + Len(a.search_query) + Len(a.filter_input)
        + Len(a.command_palette_input)

WithinInputBound(a) == InputLength(a) <= MaxInput

\* the commits the collaborator delivers: number i of the log
AppCommit(i) ==
    [hash          |-> ToString(i),
     short_hash    |-> <<"c">> \o TwoDigits(i),
     message       |-> IF i % 3 = 1 THEN <<"F","i","x">> ELSE <<"q","a">>,
     summary       |-> IF i % 3 = 1 THEN <<"F","i","x">>
                       ELSE IF i % 3 = 2 THEN <<"A","d","d">> ELSE <<"D","o","c">>,
     author        |-> IF i % 2 = 1 THEN <<"a","l">> ELSE <<"B","o","@","x">>,
     date          |-> i % 4,
     parent_hashes |-> IF i = 1 THEN <<>> ELSE <<ToString(i - 1)>>,
     refs          |-> <<>>]

\* the log in the order the collaborator lists it: newest (highest number) first
AppCommits(n) == [k \in 1..n |-> AppCommit(n + 1 - k)]

\* file lists get_status may return
FileLists ==
    {<<>>,
     <<[path |-> "a.rs", status |-> "Modified"], [path |-> "b.rs", status |-> "AddedStaged"]>>}

Outcomes == {"Ok", "Err"}

\* outcomes of the collaborator calls one event may make
Envs == [diff : Outcomes, stage : Outcomes, status : Outcomes, files : FileLists]

OkEnv == [diff |-> "Ok", stage |-> "Ok", status |-> "Ok", files |-> <<>>]

\* the keys whose handler may call the collaborator
CallsCollaborator(a, e) ==
    /\ e.type = "Key"
    /\ \/ IsChar(e.key, "d") /\ e.key.shift
       \/ IsChar(e.key, " ")
       \/ e.key.code = "Char" /\ e.key.ch \in {"S", "U"} /\ e.key.ctrl
       \/ a.view_mode = "CommandPalette" /\ e.key.code = "Enter"

EnvsFor(a, e) == IF CallsCollaborator(a, e) THEN Envs ELSE {OkEnv}

\* one iteration of the loop that reads event e, the text buffers holding at
\* most limit characters together
StepWithin(e, env, limit) ==
    /\ ~should_quit
    /\ \E r \in {handle_event(app, e, env)} :
        /\ InputLength(r.app) <= limit
        /\ app' = r.app
        /\ should_quit' = r.quit
    /\ event' = e
    /\ prev' = Snapshot(app)
    /\ UNCHANGED <<tree_vars, stats_vars, diff_vars>>

Step(e, env) == StepWithin(e, env, MaxInput)

\* run_tui up to the loop: App::new, set_commits
LoopInit(commits, has_repo) ==
    /\ app = AppNew(commits, has_repo)
    /\ should_quit = FALSE
    /\ event = NoEvent
    /\ prev = Snapshot(app)
    /\ tree_input = <<>>
    /\ tree_nodes = <<>>
    /\ tree_max_depth = 0
    /\ tree_pc = "built"
    /\ StatsIdle
    /\ DiffIdle

SpecialKeys ==
    {Key(c) : c \in {"Down", "Up", "PageDown", "PageUp", "Home", "End", "Enter", "Tab",
                     "BackTab", "Left", "Right", "Esc", "Backspace", "Delete"}}

CharKeys ==
    {Char(c) : c \in {"q", "j", "k", "h", "l", "/", "f", "s", "c", "b", "?", "r", "t",
                      " ", "a", "m", "d", "n", "p", "x", "@", "!"}}
    \cup {Ctrl(c) : c \in {"b", "p", "n", "S", "U", "q"}}
    \cup {Shift("d")}

\* every key the handlers tell apart
AllKeys == SpecialKeys \cup CharKeys

MouseKinds == {"LeftDown", "RightDown", "ScrollDown", "ScrollUp", "Moved"}

\* one mouse event of every kind handle_mouse tells apart (a click in the list area)
AllMice == {Mouse(kind, 30, 2, 0) : kind \in MouseKinds}

AllEvents == {KeyEv(k) : k \in AllKeys} \cup {MouseEv(m) : m \in AllMice} \cup {OtherEv}

----------------------------------------------------------------------------
(* Spec: the event loop over short commit lists. The user presses the keys  *)
(* each mode gives a meaning to, types into the input buffers, and uses the  *)
(* mouse.                                                                    *)

\* keys pressed while the commit list has the focus
ListKeys ==
    {Key(c) : c \in {"Enter", "Esc"}}
    \cup {Char(c) : c \in {"q", "/", "f", "s", "b", "?"}}
    \cup {Ctrl("p"), Shift("d")}

\* keys pressed while an input buffer has the focus
InputKeys ==
    {Key(c) : c \in {"Enter", "Esc", "Backspace"}} \cup {Char("q")}

\* keys pressed while Details, Diff, Help or Stats is shown
ViewKeys ==
    {Key(c) : c \in {"Enter", "Esc"}} \cup {Char(c) : c \in {"q", "?"}}

\* a click on the first row of the list (twice in a row: a double click) and
\* one tick of the wheel
Mice == {Mouse("LeftDown", 30, 2, 0), Mouse("ScrollDown", 30, 2, 0)}

\* every collaborator call of an event fails
ErrEnv == [diff |-> "Err", stage |-> "Err", status |-> "Err", files |-> <<>>]

\* collaborator outcomes the specifications generate
SomeEnvs(a, e) == IF CallsCollaborator(a, e) THEN {OkEnv, ErrEnv} ELSE {OkEnv}

InputModes == {"InputBranch", "Filter", "CommandPalette"}

ViewModes == {"Details", "Diff", "Help", "Stats"}

\* an input buffer receives the characters typed
TakesText(a) == a.view_mode \in InputModes \/ (a.view_mode = "List" /\ a.is_searching)

Init ==
    \E n \in 0..MaxCommits, has_repo \in BOOLEAN : LoopInit(AppCommits(n), has_repo)

ListKey ==
    /\ app.view_mode = "List" /\ ~app.is_searching
    /\ \E k \in ListKeys : \E env \in SomeEnvs(app, KeyEv(k)) : Step(KeyEv(k), env)

InputKey ==
    /\ TakesText(app)
    /\ \E k \in InputKeys : \E env \in SomeEnvs(app, KeyEv(k)) : Step(KeyEv(k), env)

ViewKey ==
    /\ app.view_mode \in ViewModes
    /\ \E k \in ViewKeys : \E env \in SomeEnvs(app, KeyEv(k)) : Step(KeyEv(k), env)

MouseEvent == \E m \in Mice : Step(MouseEv(m), OkEnv)

IgnoredEvent == Step(OtherEv, OkEnv)

Next == ListKey \/ InputKey \/ ViewKey \/ MouseEvent \/ IgnoredEvent

Spec == Init /\ [][Next]_vars

----------------------------------------------------------------------------
(* SpecNav: keyboard navigation only (move up/down, page up/down, Home,     *)
(* End) over commit lists longer than a page.                               *)

NavKeys ==
    {Key(c) : c \in {"Down", "Up", "PageDown", "PageUp", "Home", "End"}}
    \cup {Char("j"), Char("k")}

NavInit == \E n \in 0..MaxNavCommits : LoopInit(AppCommits(n), TRUE)

NavKey == \E k \in NavKeys : Step(KeyEv(k), OkEnv)

NavNext == NavKey

SpecNav == NavInit /\ [][NavNext]_vars

----------------------------------------------------------------------------
(* SpecSel: every way the selection moves: navigation keys, incremental     *)
(* search and its jumps, clicks (in the list area once the sidebar is       *)
(* hidden) and the wheel, over short commit lists.                          *)

\* keys pressed while the commit list has the focus
SelKeys ==
    {Key(c) : c \in {"Down", "Up", "PageDown", "PageUp", "Home", "End", "Esc"}}
    \cup {Char("/"), Ctrl("b")}

\* keys pressed while the search query is typed
SelSearchKeys ==
    {Char("x"), Char("D"), Char("z"), Ctrl("n"), Ctrl("p"),
     Key("Enter"), Key("Esc"), Key("Backspace")}

SelMice ==
    {Mouse("LeftDown", 30, 2, 0), Mouse("LeftDown", 30, 4, 300),
     Mouse("ScrollDown", 30, 2, 0), Mouse("ScrollUp", 30, 2, 0)}

SelInit == \E n \in 0..MaxSelCommits : LoopInit(AppCommits(n), TRUE)

SelKey == ~app.is_searching /\ \E k \in SelKeys : Step(KeyEv(k), OkEnv)

SelSearchKey == app.is_searching /\ \E k \in SelSearchKeys : Step(KeyEv(k), OkEnv)

SelMouse == \E m \in SelMice : Step(MouseEv(m), OkEnv)

SelNext == SelKey \/ SelSearchKey \/ SelMouse

SpecSel == SelInit /\ [][SelNext]_vars

----------------------------------------------------------------------------
(* SpecFilter: the filter prompt with a query already typed, then the keys   *)
(* of the prompt, over the commits First, Second, Third.                     *)

\* the commits of the filter tests (create_test_commits)
FilterCommit(i) ==
    [hash          |-> ToString(i),
     short_hash    |-> <<"c">> \o TwoDigits(i),
     message       |-> CASE i % 3 = 1 -> <<"F","i","r","s","t"," ","b","o","d","y">>
                         [] i % 3 = 2 -> <<"S","e","c","o","n","d">>
                         [] OTHER -> <<"T","h","i","r","d">>,
     summary       |-> CASE i % 3 = 1 -> <<"F","i","r","s","t">>
                         [] i % 3 = 2 -> <<"S","e","c","o","n","d">>
                         [] OTHER -> <<"T","h","i","r","d">>,
     author        |-> IF i % 2 = 1 THEN <<"a","l">> ELSE <<"B","o","@","x">>,
     date          |-> 20 * i,
     parent_hashes |-> IF i = 1 THEN <<>> ELSE <<ToString(i - 1)>>,
     refs          |-> <<>>]

FilterCommits(n) == [k \in 1..n |-> FilterCommit(n + 1 - k)]

\* texts a user types into the prompt (no lowercase a, m or d: those keys
\* switch the filter mode)
FilterQueries ==
    {<<>>,
     <<"f","i","r","s","t">>, <<"F","I","R","S","T">>, <<"f","I","r","S","t">>,
     <<"S">>, <<"i","r">>, <<"b","o">>, <<"B","O">>, <<"l">>, <<"@">>,
     <<"-","0","2","-">>, <<"2","0","2","4">>, <<"1","0">>, <<"z","z">>}

\* the state after 'f' and the query typed
FilterInit ==
    \E n \in 0..MaxFilterCommits, q \in FilterQueries :
        /\ Len(q) <= MaxFilterInput
        /\ app = [handle_key(AppNew(FilterCommits(n), TRUE), Char("f"), OkEnv).app
                    EXCEPT !.filter_input = q]
        /\ should_quit = FALSE
        /\ event = NoEvent
        /\ prev = Snapshot(app)
        /\ tree_input = <<>>
        /\ tree_nodes = <<>>
        /\ tree_max_depth = 0
        /\ tree_pc = "built"
        /\ StatsIdle
        /\ DiffIdle

FilterPromptKeys ==
    {Key(c) : c \in {"Enter", "Esc", "Backspace"}}
    \cup {Char(c) : c \in {"a", "m", "d", "F"}}

FilterListKeys == {Char("f"), Key("Down")}

FilterPromptKey ==
    /\ app.view_mode = "Filter"
    /\ \E k \in FilterPromptKeys : StepWithin(KeyEv(k), OkEnv, MaxFilterInput)

FilterListKey ==
    /\ app.view_mode = "List"
    /\ \E k \in FilterListKeys : StepWithin(KeyEv(k), OkEnv, MaxFilterInput)

FilterNext == FilterPromptKey \/ FilterListKey

SpecFilter == FilterInit /\ [][FilterNext]_vars

----------------------------------------------------------------------------
(* SpecStats: App::new over every bounded commit list, then set_commits     *)
(* calls, as run_tui makes one with the same list right after App::new.     *)

\* the event loop and the graph builder are not part of the specification
AppIdle ==
    /\ app = AppNew(<<>>, FALSE)
    /\ should_quit = FALSE
    /\ event = NoEvent
    /\ prev = Snapshot(app)

TreeIdle ==
    /\ tree_input = <<>>
    /\ tree_nodes = <<>>
    /\ tree_max_depth = 0
    /\ tree_pc = "built"

\* the clock at App::new, in days
StatsStart == 40

StatsAuthors == {<<"a","l">>, <<"B","o">>}

\* commit dates 1, 7, 30 and 31 days before StatsStart
StatsDates == {StatsStart - age : age \in {OneDay, OneWeek, OneMonth, OneMonth + 1}}

\* the fields of a Commit that calculate_stats reads
StatsCommit == [author : StatsAuthors, date : StatsDates]

StatsLists == UNION {[1..n -> StatsCommit] : n \in 0..MaxStatsCommits}

\* App::new : stats = RepoStats::default(), then calculate_stats
StatsInit ==
    /\ \E commits \in StatsLists : \E order \in IterationOrders(AuthorsOf(commits)) :
          /\ stats_commits = commits
          /\ stats = calculate_stats(RepoStatsDefault, commits, StatsStart, order)
    /\ stats_calls = 0
    /\ now = StatsStart
    /\ AppIdle
    /\ TreeIdle
    /\ DiffIdle

\* App::set_commits(commits) at clock t: the list is replaced and
\* calculate_stats runs on the stats left by the previous computation
set_commits(commits, t) ==
    /\ stats_calls < MaxSetCommits
    /\ \E order \in IterationOrders(AuthorsOf(commits)) :
          stats' = calculate_stats(stats, commits, t, order)
    /\ stats_commits' = commits
    /\ stats_calls' = stats_calls + 1
    /\ now' = t
    /\ UNCHANGED <<tree_vars, app_vars, diff_vars>>

\* run_tui: set_commits with the list App::new was given
SetSameCommits == \E t \in {now, now + 1} : set_commits(stats_commits, t)

\* a reload with a shorter list
SetFewerCommits ==
    /\ stats_commits # <<>>
    /\ \E t \in {now, now + 1} : set_commits(Tail(stats_commits), t)

StatsNext == SetSameCommits \/ SetFewerCommits

SpecStats == StatsInit /\ [][StatsNext]_vars

----------------------------------------------------------------------------
(* SpecDiff: DiffParser::parse and then DiffParser::count_stats on every    *)
(* diff text of a few lines.                                                *)

DiffTexts ==
    {<<"d","i","f","f"," ","-","-","g","i","t"," ","a","/","f"," ","b","/","f">>,
     <<"-","-","-"," ","a","/","f">>, <<"+","+","+"," ","b","/","f">>,
     <<"+","+","+"," ","b","/","g">>, <<"+","+","+"," ","/","d","e","v","/","n","u","l","l">>,
     <<"@","@"," ","-","1"," ","+","1"," ","@","@">>, <<"+","x">>, <<"-","y">>, <<" ","z">>,
     <<"i","n","d","e","x"," ","1">>, <<>>, <<"?">>}

DiffInit ==
    /\ diff_content \in UNION {[1..n -> DiffTexts] : n \in 0..MaxDiffLines}
    /\ diff_lines = <<>>
    /\ diff_stats = DiffStatsDefault
    /\ diff_pc = "text"
    /\ HighlightIdle
    /\ AppIdle
    /\ TreeIdle
    /\ StatsIdle

\* let lines = DiffParser::parse(&self.diff_content)
Parse ==
    /\ diff_pc = "text"
    /\ diff_lines' = parse(diff_content)
    /\ diff_pc' = "parsed"
    /\ UNCHANGED <<diff_content, diff_stats, highlight_vars, tree_vars, app_vars, stats_vars>>

\* self.diff_stats = DiffParser::count_stats(&lines)
CountStats ==
    /\ diff_pc = "parsed"
    /\ diff_stats' = count_stats(diff_lines)
    /\ diff_pc' = "counted"
    /\ UNCHANGED <<diff_content, diff_lines, highlight_vars, tree_vars, app_vars, stats_vars>>

DiffNext == Parse \/ CountStats

SpecDiff == DiffInit /\ [][DiffNext]_vars

----------------------------------------------------------------------------
(* SpecPalette: the command palette: opened with Ctrl-p, a query typed,     *)
(* the result list rotated with Up and Down, an entry run with Enter.       *)

PaletteInit ==
    \E n \in 0..MaxPaletteCommits, has_repo \in BOOLEAN : LoopInit(AppCommits(n), has_repo)

\* keys pressed while the list is shown (Esc leaves a search the palette started)
PaletteListKeys == {Ctrl("p"), Key("Esc")}

\* keys pressed in the palette; no command matches 'z'
PalettePromptKeys ==
    {Key(c) : c \in {"Up", "Down", "Enter", "Esc", "Backspace"}}
    \cup {Char("z"), Char("g")}

PaletteListKey ==
    /\ app.view_mode = "List"
    /\ \E k \in PaletteListKeys : StepWithin(KeyEv(k), OkEnv, MaxPaletteInput)

PalettePromptKey ==
    /\ app.view_mode = "CommandPalette"
    /\ \E k \in PalettePromptKeys : \E env \in SomeEnvs(app, KeyEv(k)) :
          StepWithin(KeyEv(k), env, MaxPaletteInput)

PaletteNext == PaletteListKey \/ PalettePromptKey

SpecPalette == PaletteInit /\ [][PaletteNext]_vars

-----------------------------------------------------------------------------
(* Specification of the collaborator calls: staging with space, Ctrl-S and   *)
(* Ctrl-U, the diff fetch with Shift-d, every call succeeding or failing     *)

CollabInit ==
    \E n \in 0..MaxCollabCommits, has_repo \in BOOLEAN : LoopInit(AppCommits(n), has_repo)

\* file lists get_status returns: none, an unstaged file first, a staged file first
CollabFileLists ==
    FileLists \cup {<<[path |-> "b.rs", status |-> "AddedStaged"]>>}

CollabEnvs ==
    [diff : Outcomes, stage : Outcomes, status : Outcomes, files : CollabFileLists]

\* outcomes of the staging calls, the diff fetch not being called
StageEnvs == {env \in CollabEnvs : env.diff = "Ok"}

\* outcomes of the diff fetch, the staging calls not being called
DiffEnvs == {OkEnv, ErrEnv}

StageKeys == {Char(" "), Ctrl("S"), Ctrl("U")}

PanelKeys == {Key("Tab")}

DiffViewKeys == {Key("Esc"), Char("j")}

StageKey ==
    /\ app.view_mode = "List"
    /\ \E k \in StageKeys, env \in StageEnvs : Step(KeyEv(k), env)

PanelKey ==
    /\ app.view_mode = "List"
    /\ \E k \in PanelKeys : Step(KeyEv(k), OkEnv)

DiffFetchKey ==
    /\ app.view_mode = "List"
    /\ \E env \in DiffEnvs : Step(KeyEv(Shift("d")), env)

DiffViewKey ==
    /\ app.view_mode = "Diff"
    /\ \E k \in DiffViewKeys : Step(KeyEv(k), OkEnv)

CollabNext == StageKey \/ PanelKey \/ DiffFetchKey \/ DiffViewKey

SpecCollab == CollabInit /\ [][CollabNext]_vars

-----------------------------------------------------------------------------
(* Specification of the mouse: left clicks in and outside the sidebar zone,  *)
(* on and off the list rows, early and late after the previous click; the    *)
(* keys that hide the sidebar, go to the end and close the detail view       *)

\* lengths of the commit list: empty, shorter than a page, longer than a page
MouseListSizes == {0, 3, MaxMouseCommits}

MouseInit == \E n \in MouseListSizes : LoopInit(AppCommits(n), TRUE)

\* columns clicked: inside the sidebar zone, outside it
ClickColumns == {5, SidebarWidth + 10}

\* rows clicked: the header, the first list row, a list row in the second band
\* of the sidebar, the row below the last list row
ClickRows == {1, HeaderHeight, HeaderHeight + 2, HeaderHeight + MouseItemsPerPage}

\* milliseconds since the previous click
ClickDelays == {DoubleClickMillis - 1, DoubleClickMillis}

LeftClicks ==
    {Mouse("LeftDown", c, r, t) : c \in ClickColumns, r \in ClickRows, t \in ClickDelays}

OtherMice == {Mouse("RightDown", 5, 1, 0)}

MouseListKeys == {Ctrl("b"), Key("End")}

MouseDetailKeys == {Key("Esc")}

LeftClick == \E m \in LeftClicks : Step(MouseEv(m), OkEnv)

OtherMouse == \E m \in OtherMice : Step(MouseEv(m), OkEnv)

MouseListKey ==
    /\ app.view_mode = "List"
    /\ \E k \in MouseListKeys : Step(KeyEv(k), OkEnv)

MouseDetailKey ==
    /\ app.view_mode = "Details"
    /\ \E k \in MouseDetailKeys : Step(KeyEv(k), OkEnv)

MouseNext == LeftClick \/ OtherMouse \/ MouseListKey \/ MouseDetailKey

SpecMouse == MouseInit /\ [][MouseNext]_vars

-----------------------------------------------------------------------------
(* Specification of the highlighter: detect_language on a file path, or a    *)
(* language name given by the caller, then apply_syntax_highlighting on one  *)
(* line                                                                      *)

\* characters of the lines: a letter, a letter of the number test, a digit,
\* both quotes, the characters of the comment marks, the escape, the space
HighlightChars == {"a", "x", "1", "\"", "'", "/", "*", "\\", " "}

HighlightLines == UNION {[1..n -> HighlightChars] : n \in 0..MaxLineLength}

ReadmePath == <<"R", "E", "A", "D", "M", "E">>

XyzPath == <<"s", "o", "m", "e", "f", "i", "l", "e", ".", "x", "y", "z">>

RustPath == <<"s", "r", "c", "/", "m", "a", "i", "n", ".", "R", "S">>

JsonPath == <<"d", "a", "t", "a", ".", "j", "s", "o", "n">>

HighlightPaths == {ReadmePath, XyzPath, RustPath, JsonPath}

\* language names a caller hands over without detect_language
HighlightLanguages == {"zzz", "markdown", "kotlin"}

HighlightInit ==
    /\ \E content \in HighlightLines, is_addition \in BOOLEAN, dark_theme \in BOOLEAN :
          \/ \E path \in HighlightPaths :
                /\ hl_args = [file_path |-> path, content |-> content,
                              is_addition |-> is_addition, dark_theme |-> dark_theme]
                /\ hl_language = ""
                /\ hl_pc = "path"
          \/ \E language \in HighlightLanguages :
                /\ hl_args = [file_path |-> <<>>, content |-> content,
                              is_addition |-> is_addition, dark_theme |-> dark_theme]
                /\ hl_language = language
                /\ hl_pc = "language"
    /\ hl_line = None
    /\ diff_content = <<>>
    /\ diff_lines = <<>>
    /\ diff_stats = DiffStatsDefault
    /\ diff_pc = "counted"
    /\ AppIdle
    /\ TreeIdle
    /\ StatsIdle

\* let language = DiffParser::detect_language(path)
DetectLanguage ==
    /\ hl_pc = "path"
    /\ hl_language' = detect_language(hl_args.file_path)
    /\ hl_pc' = "language"
    /\ UNCHANGED <<hl_args, hl_line, diff_content, diff_lines, diff_stats, diff_pc,
                   tree_vars, app_vars, stats_vars>>

\* DiffParser::apply_syntax_highlighting(content, language, is_addition, dark_theme)
ApplySyntaxHighlighting ==
    /\ hl_pc = "language"
    /\ hl_line' = Some(apply_syntax_highlighting(hl_args.content, hl_language,
                                                 hl_args.is_addition, hl_args.dark_theme))
    /\ hl_pc' = "styled"
    /\ UNCHANGED <<hl_args, hl_language, diff_content, diff_lines, diff_stats, diff_pc,
                   tree_vars, app_vars, stats_vars>>

HighlightNext == DetectLanguage \/ ApplySyntaxHighlighting

SpecHighlight == HighlightInit /\ [][HighlightNext]_vars

-----------------------------------------------------------------------------
(* SpecReload: incremental search and its jumps over short commit lists,    *)
(* with App::set_commits called between events to replace the list.         *)

\* App::set_commits on the App record; its calculate_stats is the action
\* set_commits of the statistics
replace_commits(a, commits) ==
    [a EXCEPT !.commits = commits,
              !.filtered_commits = commits,
              !.selected_index = 0,
              !.scroll_offset = 0]

ReloadInit == \E n \in 0..MaxReloadCommits : LoopInit(AppCommits(n), TRUE)

\* keys pressed while the commit list has the focus
ReloadListKeys == {Char("/"), Key("Down"), Ctrl("n"), Ctrl("p")}

\* keys pressed while the search query is typed
ReloadSearchKeys ==
    {Char("x"), Char("D"), Ctrl("n"), Ctrl("p"), Key("Enter"), Key("Esc"), Key("Backspace")}

ReloadListKey == ~app.is_searching /\ \E k \in ReloadListKeys : Step(KeyEv(k), OkEnv)

ReloadSearchKey == app.is_searching /\ \E k \in ReloadSearchKeys : Step(KeyEv(k), OkEnv)

\* app.set_commits(commits) with a list of another length
SetCommits ==
    /\ ~should_quit
    /\ \E n \in 0..MaxReloadCommits :
          /\ n # Len(app.commits)
          /\ app' = replace_commits(app, AppCommits(n))
    /\ event' = NoEvent
    /\ prev' = Snapshot(app)
    /\ UNCHANGED <<should_quit, tree_vars, stats_vars, diff_vars>>

ReloadNext == ReloadListKey \/ ReloadSearchKey \/ SetCommits

SpecReload == ReloadInit /\ [][ReloadNext]_vars

-----------------------------------------------------------------------------
(* SpecDiffView: the diff view over short commit lists: Shift-d in the list *)
(* with either outcome of the fetch, the keys of the diff view, the list    *)
(* navigation and the wheel in every mode.                                  *)

DiffViewInit ==
    \E n \in 0..MaxDiffViewCommits, has_repo \in BOOLEAN :
        LoopInit(AppCommits(n), has_repo)

Wheel == {Mouse("ScrollDown", 40, 2, 0), Mouse("ScrollUp", 40, 2, 0)}

DiffViewListKey ==
    /\ app.view_mode = "List"
    /\ \E k \in {Key("Down"), Key("Up")} : Step(KeyEv(k), OkEnv)

WheelEvent == \E m \in Wheel : Step(MouseEv(m), OkEnv)

DiffViewNext == DiffFetchKey \/ DiffViewKey \/ DiffViewListKey \/ WheelEvent

SpecDiffView == DiffViewInit /\ [][DiffViewNext]_vars

----------------------------------------------------------------------------
(* Specification of the graph builder: CommitTree::new on every bounded input *)

TreeInit ==
    /\ \E n \in 0..MaxTreeCommits :
         \E order \in ListOrders(n), parents \in ParentChoices(n),
            dates \in [1..n -> 1..MaxDate] :
            tree_input = TreeInput(n, order, parents, dates)
    /\ tree_nodes = <<>>
    /\ tree_max_depth = 0
    /\ tree_pc = "new"
    /\ app = AppNew(<<>>, FALSE)
    /\ should_quit = FALSE
    /\ event = NoEvent
    /\ prev = Snapshot(app)
    /\ StatsIdle
    /\ DiffIdle

\* CommitTree::new : tree.build_tree(commits)
CommitTreeNew ==
    /\ tree_pc = "new"
    /\ LET r == build_tree(tree_input) IN
        /\ tree_nodes' = r.nodes
        /\ tree_max_depth' = r.max_depth
    /\ tree_pc' = "built"
    /\ UNCHANGED <<tree_input, app_vars, stats_vars, diff_vars>>

TreeNext == CommitTreeNew

SpecTree == TreeInit /\ [][TreeNext]_vars

-----------------------------------------------------------------------------
(* SpecTies: CommitTree::new on the lists of the graph builder's            *)
(* specification with two dates only: any two commits are tied or not, in   *)
(* every listing order and with every choice of parents.                    *)

TieDates == {1, 2}

TieInit ==
    /\ \E n \in 0..MaxTieCommits :
         \E order \in ListOrders(n), parents \in ParentChoices(n),
            dates \in [1..n -> TieDates] :
            tree_input = TreeInput(n, order, parents, dates)
    /\ tree_nodes = <<>>
    /\ tree_max_depth = 0
    /\ tree_pc = "new"
    /\ app = AppNew(<<>>, FALSE)
    /\ should_quit = FALSE
    /\ event = NoEvent
    /\ prev = Snapshot(app)
    /\ StatsIdle
    /\ DiffIdle

SpecTies == TieInit /\ [][TreeNext]_vars

-----------------------------------------------------------------------------
(* SpecLanes: CommitTree::new on forests, lists of up to MaxLaneCommits     *)
(* commits, oldest first, in which every commit has at most one parent, so  *)
(* that a commit can have several children that have several children.      *)

LaneIds == <<"a", "b", "c", "d", "e", "f", "g", "h">>

\* commit number i of a forest; parent is the number of its parent, 0 for none
LaneCommit(i, parent) ==
    [hash          |-> LaneIds[i],
     short_hash    |-> <<LaneIds[i]>>,
     message       |-> TreeSummary,
     summary       |-> TreeSummary,
     author        |-> <<"t">>,
     date          |-> i,
     parent_hashes |-> IF parent = 0 THEN <<>> ELSE <<LaneIds[parent]>>,
     refs          |-> <<>>]

\* one parent number per commit, always an older commit
LaneParents(n) == {ps \in [1..n -> 0..(n - 1)] : \A i \in 1..n : ps[i] < i}

LaneInit ==
    /\ \E n \in 0..MaxLaneCommits :
         \E parents \in LaneParents(n) :
            tree_input = [i \in 1..n |-> LaneCommit(i, parents[i])]
    /\ tree_nodes = <<>>
    /\ tree_max_depth = 0
    /\ tree_pc = "new"
    /\ app = AppNew(<<>>, FALSE)
    /\ should_quit = FALSE
    /\ event = NoEvent
    /\ prev = Snapshot(app)
    /\ StatsIdle
    /\ DiffIdle

SpecLanes == LaneInit /\ [][TreeNext]_vars

-----------------------------------------------------------------------------
(* SpecRows: keyboard navigation over the commit lists of the graph         *)
(* builder's specification (every listing order, parents inside and outside *)
(* the list, equal and different dates), for claims that relate the rows of *)
(* the graph to the commit list.                                            *)

RowInit ==
    \E n \in 0..MaxRowCommits :
        \E order \in ListOrders(n), parents \in ParentChoices(n),
           dates \in [1..n -> 1..MaxDate] :
            LoopInit(TreeInput(n, order, parents, dates), TRUE)

RowNext == NavKey

SpecRows == RowInit /\ [][RowNext]_vars

----------------------------------------------------------------------------
(* SpecType: CommitTree::new on short lists in which one commit carries a   *)
(* summary and references that bear on its classification.                  *)

\* a second parent id that is not in the supplied list
OtherOutsideId == "y"

TypeSummaries ==
    {<<"f","i","x">>,
     <<"M","e","r","g","e"," ","x">>, <<"m","e","r","g","e","d">>,
     <<"R","e","v","e","r","t",":"," ","X">>, <<"r","e","v","e","r","t"," ","x">>,
     <<"R","e","v","e","r","t","e","d">>,
     <<"S","q","u","a","s","h"," ","c">>, <<"s","q","u","a","s","h","!">>,
     <<"u","n","m","e","r","g","e">>}

\* reference types a commit may carry
TypeRefs == {<<>>, <<"Tag">>, <<"Head">>}

\* parent lists: those of ParentLists, or two parents outside the list
TypeParentLists(i) == ParentLists(i) \cup {<<OutsideId, OtherOutsideId>>}

TypeParentChoices(n) ==
    {ps \in [1..n -> UNION {TypeParentLists(i) : i \in 1..n}] :
        \A i \in 1..n : ps[i] \in TypeParentLists(i)}

\* commit number i; the subject carries the summary and the references
TypeCommit(i, parents, summary, refs) ==
    [TreeCommit(i, parents, i) EXCEPT !.summary = summary, !.message = summary,
                                      !.refs = refs]

TypeInit ==
    /\ \E n \in 1..MaxTypeCommits :
         \E parents \in TypeParentChoices(n), subject \in 1..n,
            summary \in TypeSummaries, refs \in TypeRefs :
            tree_input = [k \in 1..n |->
                             IF k = subject
                             THEN TypeCommit(k, parents[k], summary, refs)
                             ELSE TreeCommit(k, parents[k], k)]
    /\ tree_nodes = <<>>
    /\ tree_max_depth = 0
    /\ tree_pc = "new"
    /\ AppIdle
    /\ StatsIdle
    /\ DiffIdle

SpecType == TypeInit /\ [][TreeNext]_vars

----------------------------------------------------------------------------
(* SpecChain: CommitTree::new on linear chains of three commits a <- b <- c *)
(* with strictly increasing timestamps, listed in every order.              *)

ChainLength == 3

\* summaries that start with none of merge, revert, squash
ChainSummaries == {<<"f","i","x">>, <<"u","n","m","e","r","g","e">>, <<"A","d","d">>}

\* the chain: commit 1 is the root, commit i > 1 has commit i - 1 as its parent
ChainCommit(i, date, summary, refs) ==
    [TypeCommit(i, IF i = 1 THEN <<>> ELSE <<TreeIds[i - 1]>>, summary, refs)
        EXCEPT !.date = date]

ChainInit ==
    /\ \E order \in ListOrders(ChainLength),
          dates \in [1..ChainLength -> 1..MaxChainDate],
          summaries \in [1..ChainLength -> ChainSummaries],
          tip_refs \in {<<>>, <<"Head">>} :
          /\ \A i \in 1..(ChainLength - 1) : dates[i] < dates[i + 1]
          /\ tree_input =
                [k \in 1..ChainLength |->
                    ChainCommit(order[k], dates[order[k]], summaries[order[k]],
                                IF order[k] = ChainLength THEN tip_refs ELSE <<>>)]
    /\ tree_nodes = <<>>
    /\ tree_max_depth = 0
    /\ tree_pc = "new"
    /\ AppIdle
    /\ StatsIdle
    /\ DiffIdle

SpecChain == ChainInit /\ [][TreeNext]_vars

----------------------------------------------------------------------------
(* Claims about the graph builder, checked under SpecTree *)

InputHashes == {tree_input[i].hash : i \in 1..Len(tree_input)}

NodeCount(h) == Cardinality({k \in 1..Len(tree_nodes) : tree_nodes[k].commit.hash = h})

\* C1: for every commit list with pairwise distinct ids, partial windows included,
\* CommitTree::new emits exactly one node per input commit: as many nodes as
\* commits, and a commit whose parents lie outside the list is emitted too.
C1_OneNodePerCommit ==
    tree_pc = "built" =>
        /\ Len(tree_nodes) = Len(tree_input)
        /\ \A h \in InputHashes : NodeCount(h) = 1

\* C2: the node list returned by CommitTree::new is sorted non-increasing by
\* commit timestamp, whatever the input order and the traversal order.
C2_SortedNewestFirst ==
    tree_pc = "built" =>
        \A k \in 1..(Len(tree_nodes) - 1) :
            tree_nodes[k].commit.date >= tree_nodes[k + 1].commit.date

\* C2 witness: a built graph of three nodes with different timestamps whose
\* input listed an older commit before a newer one.
C2_Witness ==
    /\ tree_pc = "built"
    /\ Len(tree_nodes) = 3
    /\ tree_nodes[1].commit.date > tree_nodes[3].commit.date
    /\ tree_input[1].date < tree_input[3].date


----------------------------------------------------------------------------
(* Claims about the application state machine *)

\* the event read last was the key Char(c), whatever its modifiers
PressedChar(e, c) == e.type = "Key" /\ IsChar(e.key, c)

\* the event read last was the key with this code
PressedCode(e, code) == e.type = "Key" /\ e.key.code = code

SecondaryModes ==
    {"Details", "Diff", "Help", "InputBranch", "Search", "Filter", "Stats", "CommandPalette"}

\* C4 as stated: in every reachable state whose mode is List, pressing 'q'
\* makes handle_key return the terminate flag.
C4_QuitInList ==
    /\ (PressedChar(event, "q") /\ prev.view_mode = "List") => should_quit
    /\ app.view_mode = "List" => handle_key(app, Char("q"), OkEnv).quit

\* C4 amended: in every reachable state whose mode is List and in which no
\* incremental search is being typed (is_searching is false), pressing 'q' makes
\* handle_key return the terminate flag; while a search is being typed, 'q' is
\* appended to the query and the flag is not returned.
C4_QuitInListNotSearching ==
    /\ (PressedChar(event, "q") /\ prev.view_mode = "List" /\ ~prev.is_searching)
          => should_quit
    /\ (app.view_mode = "List" /\ ~app.is_searching)
          => handle_key(app, Char("q"), OkEnv).quit
    /\ (app.view_mode = "List" /\ app.is_searching)
          => LET r == handle_key(app, Char("q"), OkEnv) IN
             /\ ~r.quit
             /\ r.app.search_query = Append(app.search_query, "q")

\* C4 witness: 'q' was pressed in List mode outside a search and the loop ended.
C4_Witness ==
    /\ PressedChar(event, "q")
    /\ prev.view_mode = "List" /\ ~prev.is_searching
    /\ should_quit

PressedEscOrQ(e) == PressedCode(e, "Esc") \/ PressedChar(e, "q")

\* modes Esc leaves for List
EscLeaves == {"Details", "Diff", "Help", "InputBranch", "Filter", "Stats", "CommandPalette"}

\* modes 'q' leaves for List: the modes that have no input buffer
QLeaves == {"Details", "Diff", "Help", "Stats"}

\* C6 as stated: in each of the eight secondary modes Esc, and likewise 'q',
\* switches the mode to List without returning the terminate flag.
C6_EscOrQReturnsToList ==
    /\ (PressedEscOrQ(event) /\ prev.view_mode \in SecondaryModes)
          => (app.view_mode = "List" /\ ~should_quit)
    /\ app.view_mode \in SecondaryModes =>
          \A k \in {Key("Esc"), Char("q")} :
             LET r == handle_key(app, k, OkEnv) IN r.app.view_mode = "List" /\ ~r.quit

\* C6 amended: Esc switches the mode to List, without the terminate flag, from
\* Details, Diff, Help, BranchInput, Filter, Stats and CommandPalette; 'q' does so
\* from Details, Diff, Help and Stats only. In BranchInput, Filter and
\* CommandPalette 'q' is typed into the mode's buffer and the mode stays. The
\* mode is never Search: an incremental search runs in List mode.
C6_LeavingSecondaryModes ==
    /\ app.view_mode # "Search"
    /\ (PressedCode(event, "Esc") /\ prev.view_mode \in EscLeaves)
          => (app.view_mode = "List" /\ ~should_quit)
    /\ (PressedChar(event, "q") /\ prev.view_mode \in QLeaves)
          => (app.view_mode = "List" /\ ~should_quit)
    /\ (PressedChar(event, "q") /\ prev.view_mode \in EscLeaves \ QLeaves)
          => (app.view_mode = prev.view_mode /\ ~should_quit)
    /\ app.view_mode \in EscLeaves =>
          LET r == handle_key(app, Key("Esc"), OkEnv) IN r.app.view_mode = "List" /\ ~r.quit
    /\ app.view_mode \in QLeaves =>
          LET r == handle_key(app, Char("q"), OkEnv) IN r.app.view_mode = "List" /\ ~r.quit
    /\ app.view_mode \in EscLeaves \ QLeaves =>
          LET r == handle_key(app, Char("q"), OkEnv) IN
          /\ r.app.view_mode = app.view_mode /\ ~r.quit
          /\ Len(r.app.branch_input) + Len(r.app.filter_input)
                + Len(r.app.command_palette_input)
             = Len(app.branch_input) + Len(app.filter_input)
                + Len(app.command_palette_input) + 1

\* C6 witness: Esc has closed the help view.
C6_Witness ==
    /\ PressedCode(event, "Esc")
    /\ prev.view_mode = "Help"
    /\ app.view_mode = "List" /\ ~should_quit

\* C7: when Esc or 'q' leaves BranchInput, Search (the incremental search of
\* List mode), Filter or CommandPalette, the buffer of the mode that was left
\* (branch_input, search_query, filter_input, command_palette_input) is empty.
C7_BufferClearedOnLeave ==
    PressedEscOrQ(event) =>
        /\ (prev.view_mode = "InputBranch" /\ app.view_mode # "InputBranch")
              => app.branch_input = <<>>
        /\ (prev.view_mode = "Filter" /\ app.view_mode # "Filter")
              => app.filter_input = <<>>
        /\ (prev.view_mode = "CommandPalette" /\ app.view_mode # "CommandPalette")
              => app.command_palette_input = <<>>
        /\ (prev.view_mode \in {"List", "Search"} /\ prev.is_searching /\ ~app.is_searching)
              => app.search_query = <<>>

\* the keys bound to move_down and to move_up in List mode
PressedDown(e) == PressedCode(e, "Down") \/ PressedChar(e, "j")

PressedUp(e) == PressedCode(e, "Up") \/ PressedChar(e, "k")

\* index of the last commit (0 for the empty list, as saturating_sub gives)
LastIndex(a) == saturating_sub(Len(a.commits), 1)

\* C8: move_down at the last index and move_up at index 0 are no-ops: they
\* leave the selection and the scroll offset (indeed the whole App) unchanged,
\* also when the commit list is empty.
C8_NoOpAtBoundaries ==
    /\ (PressedDown(event) /\ prev.selected_index = LastIndex(app))
          => (app.selected_index = prev.selected_index
              /\ app.scroll_offset = prev.scroll_offset)
    /\ (PressedUp(event) /\ prev.selected_index = 0)
          => (app.selected_index = 0 /\ app.scroll_offset = prev.scroll_offset)
    /\ app.selected_index = LastIndex(app) => move_down(app) = app
    /\ app.selected_index = 0 => move_up(app) = app

\* C8 witness: Down was pressed on the last commit of a list longer than a
\* page, after the list had been scrolled.
C8_Witness ==
    /\ PressedDown(event)
    /\ Len(app.commits) > PageSize
    /\ prev.selected_index = LastIndex(app)
    /\ app.selected_index = LastIndex(app)
    /\ app.scroll_offset > 0

\* C9: if the commit list is non-empty, 0 <= selected_index <= len - 1 in every
\* state reachable through key and mouse events, and one tick of the wheel
\* moves the selection exactly one row, clamped to [0, len - 1] like keyboard
\* navigation.
C9_SelectionInRange ==
    Len(app.commits) > 0 =>
        /\ app.selected_index >= 0
        /\ app.selected_index <= Len(app.commits) - 1
        /\ (event.type = "Mouse" /\ event.mouse.kind = "ScrollDown")
              => app.selected_index = Min(prev.selected_index + 1, Len(app.commits) - 1)
        /\ (event.type = "Mouse" /\ event.mouse.kind = "ScrollUp")
              => app.selected_index = Max(prev.selected_index - 1, 0)

\* C9 witness: a tick of the wheel on the last commit of a list of several
\* commits left the selection there.
C9_Witness ==
    /\ event.type = "Mouse" /\ event.mouse.kind = "ScrollDown"
    /\ Len(app.commits) > 1
    /\ prev.selected_index = Len(app.commits) - 1
    /\ app.selected_index = Len(app.commits) - 1

\* C10: in every state reachable through keyboard navigation the selected row
\* is inside the viewport of PageSize rows, scroll_offset <= selected_index <
\* scroll_offset + PageSize, and scroll_offset lies in [0, max(0, len - PageSize)].
C10_SelectionVisible ==
    /\ app.scroll_offset <= app.selected_index
    /\ app.selected_index < app.scroll_offset + PageSize
    /\ app.scroll_offset >= 0
    /\ app.scroll_offset <= Max(0, Len(app.commits) - PageSize)

----------------------------------------------------------------------------
(* Claims about search *)

\* p occurs in s when letter case is ignored
ContainsIgnoringCase(s, p) ==
    \E i \in 0..(Len(s) - Len(p)) : \A k \in 1..Len(p) : LowerChar(s[i + k]) = LowerChar(p[k])

\* indices (0-based) of the commits of the full list that the query matches
MatchSet(a) ==
    {i \in 0..(Len(a.commits) - 1) :
        LET c == a.commits[i + 1] IN
        \/ ContainsIgnoringCase(c.summary, a.search_query)
        \/ ContainsIgnoringCase(c.message, a.search_query)
        \/ ContainsIgnoringCase(c.author, a.search_query)
        \/ ContainsIgnoringCase(c.short_hash, a.search_query)}

StrictlyIncreasing(s) == \A i \in 1..(Len(s) - 1) : s[i] < s[i + 1]

\* the last event edited the search query, so that search() ran
TypedInSearch ==
    /\ prev.view_mode = "List" /\ prev.is_searching
    /\ event.type = "Key"
    /\ \/ event.key.code = "Backspace"
       \/ event.key.code = "Char" /\ ~(event.key.ctrl /\ event.key.ch \in {"n", "p"})

PressedCtrl(e, c) == PressedChar(e, c) /\ e.key.ctrl

\* characters tried as the next character of the query
SearchChars == {"x", "D", "z", "c", "Q"}

\* C11: a search whose (non-empty) query matches no commit leaves search_results
\* empty and leaves selected_index and scroll_offset as they were, both after a
\* key that edits the query and for search() applied to every reachable App
\* value with one more character typed.
C11_NoMatchKeepsSelection ==
    /\ (TypedInSearch /\ app.search_query # <<>> /\ MatchSet(app) = {})
          => /\ app.search_results = <<>>
             /\ app.selected_index = prev.selected_index
             /\ app.scroll_offset = prev.scroll_offset
    /\ \A c \in SearchChars :
          LET typed == [app EXCEPT !.search_query = Append(@, c)]
              r == search(typed)
          IN MatchSet(typed) = {}
                => /\ r.search_results = <<>>
                   /\ r.selected_index = app.selected_index
                   /\ r.scroll_offset = app.scroll_offset

\* C11 witness: with the second or a later commit selected, a character that
\* matches nothing was typed into the query.
C11_Witness ==
    /\ TypedInSearch /\ PressedChar(event, "z")
    /\ app.search_query = <<"z">>
    /\ prev.selected_index > 0
    /\ app.search_results = <<>>
    /\ app.selected_index = prev.selected_index

\* the search results are the matches of the query, in increasing order, and
\* the selection jumps to the first of them when the query is edited
SearchResultsExact ==
    /\ (app.is_searching /\ app.search_query # <<>>)
          => /\ StrictlyIncreasing(app.search_results)
             /\ Range(app.search_results) = MatchSet(app)
    /\ (TypedInSearch /\ app.search_query # <<>> /\ app.search_results # <<>>)
          => app.selected_index = app.search_results[1]
    /\ \A c \in SearchChars :
          LET typed == [app EXCEPT !.search_query = Append(@, c)]
              r == search(typed)
          IN /\ StrictlyIncreasing(r.search_results)
             /\ Range(r.search_results) = MatchSet(typed)
             /\ r.search_results # <<>> => r.selected_index = r.search_results[1]

\* Ctrl+N / Ctrl+P were pressed during a search with the selection on match
\* number pos (1-based) of the results
NextFromMatch(pos) ==
    /\ PressedCtrl(event, "n") /\ prev.view_mode = "List" /\ prev.is_searching
    /\ pos = Position(app.search_results, prev.selected_index)

PrevFromMatch(pos) ==
    /\ PressedCtrl(event, "p") /\ prev.view_mode = "List" /\ prev.is_searching
    /\ pos = Position(app.search_results, prev.selected_index)

\* C12 as stated: after search() with a non-empty query search_results is the
\* strictly increasing list of exactly the matching indices and the selection
\* jumps to the first; next_search_result at the last match and
\* prev_search_result at the first match leave the selection unchanged, and
\* otherwise they move the selection to the adjacent match.
C12_SearchAndAdjacentMatch ==
    /\ SearchResultsExact
    /\ \A pos \in 0..Len(app.search_results) :
          LET n == Len(app.search_results) IN
          /\ (NextFromMatch(pos) /\ n > 0)
                => IF prev.selected_index = app.search_results[n]
                   THEN app.selected_index = prev.selected_index
                   ELSE /\ app.selected_index \in Range(app.search_results)
                        /\ app.selected_index # prev.selected_index
          /\ (PrevFromMatch(pos) /\ n > 0)
                => IF prev.selected_index = app.search_results[1]
                   THEN app.selected_index = prev.selected_index
                   ELSE /\ app.selected_index \in Range(app.search_results)
                        /\ app.selected_index # prev.selected_index

\* C12 amended: as stated, for a selection that is on a match: from match
\* number pos, next_search_result selects match pos + 1 (none after the last:
\* unchanged) and prev_search_result match pos - 1 (none before the first:
\* unchanged). When the selection is on no match (the wheel or a click moved
\* it), both leave it unchanged.
C12_SearchAndMatchNavigation ==
    /\ SearchResultsExact
    /\ \A pos \in 0..Len(app.search_results) :
          LET n == Len(app.search_results) IN
          /\ NextFromMatch(pos)
                => app.selected_index = IF pos = 0 \/ pos = n THEN prev.selected_index
                                        ELSE app.search_results[pos + 1]
          /\ PrevFromMatch(pos)
                => app.selected_index = IF pos = 0 \/ pos = 1 THEN prev.selected_index
                                        ELSE app.search_results[pos - 1]

\* C12 witness: Ctrl+N moved the selection from the first match to the second.
C12_Witness ==
    /\ NextFromMatch(1)
    /\ Len(app.search_results) >= 2
    /\ app.selected_index = app.search_results[2]

-----------------------------------------------------------------------------
(* Claims about the filter, checked under SpecFilter *)

\* the date of a commit of FilterCommits written YYYY-MM-DD
DateText(c) ==
    CASE c.date = 20 -> <<"2","0","2","4","-","0","1","-","2","1">>
      [] c.date = 40 -> <<"2","0","2","4","-","0","2","-","1","0">>
      [] c.date = 60 -> <<"2","0","2","4","-","0","3","-","0","1">>
      [] OTHER -> <<"2","0","2","4","-","0","3","-","2","1">>

\* the texts of a commit a filter of this mode is compared with
FilterTexts(c, mode) ==
    CASE mode = "Author" -> {c.author}
      [] mode = "Message" -> {c.summary, c.message}
      [] OTHER -> {DateText(c)}

\* positions (1-based) of the commits of the full list the filter keeps
KeptPositions(a) ==
    {i \in 1..Len(a.commits) :
        \E t \in FilterTexts(a.commits[i], a.filter_mode) :
            ContainsIgnoringCase(t, a.filter_input)}

\* the k-th smallest element of a set of numbers
KthOf(S, k) == CHOOSE i \in S : Cardinality({j \in S : j < i}) = k - 1

\* f is the subsequence of the full list at the kept positions, in order
IsMatchingSubsequence(a, f) ==
    /\ Len(f) = Cardinality(KeptPositions(a))
    /\ \A k \in 1..Len(f) : f[k] = a.commits[KthOf(KeptPositions(a), k)]

\* the filter prompt was confirmed with Enter by the event read last
FilterApplied ==
    PressedCode(event, "Enter") /\ prev.view_mode = "Filter" /\ app.filter_input # <<>>

\* C13: after applying a non-empty filter input, filtered_commits is exactly
\* the subsequence, in the original order, of the commits that match it by the
\* selected mode (Author: author; Message: summary or message; Date: the date
\* as YYYY-MM-DD), ignoring case; a Message filter 'first' in any letter case
\* over First, Second, Third keeps exactly one commit. The same holds for
\* apply_filter called in any reachable state with a non-empty input.
C13_FilterIsMatchingSubsequence ==
    /\ FilterApplied =>
          /\ app.is_filtering
          /\ IsMatchingSubsequence(app, app.filtered_commits)
          /\ (/\ Len(app.commits) = 3
              /\ app.filter_mode = "Message"
              /\ to_lowercase(app.filter_input) = <<"f","i","r","s","t">>)
                => /\ Len(app.filtered_commits) = 1
                   /\ app.filtered_commits[1].summary = <<"F","i","r","s","t">>
    /\ app.filter_input # <<>> =>
          IsMatchingSubsequence(app, apply_filter(app).filtered_commits)

\* an upper-case FIRST applied as a Message filter keeps one commit of three
C13_Witness ==
    /\ FilterApplied
    /\ app.filter_mode = "Message"
    /\ app.filter_input = <<"F","I","R","S","T">>
    /\ Len(app.commits) = 3
    /\ Len(app.filtered_commits) = 1

-----------------------------------------------------------------------------
(* Claims about the full commit list, checked under Spec *)

\* the filter and search operations leave the full list as it is
FilterAndSearchKeepCommits ==
    /\ apply_filter(app).commits = app.commits
    /\ clear_filter(app).commits = app.commits
    /\ search(app).commits = app.commits
    /\ next_search_result(app).commits = app.commits
    /\ prev_search_result(app).commits = app.commits

-----------------------------------------------------------------------------
(* Claims about the repository statistics, checked under SpecStats *)

\* C15: the statistics are recomputed from scratch on every assignment of
\* the commit list: after App::new and after every set_commits,
\* total_commits is the length of the new list and commits_today,
\* commits_this_week and commits_this_month are the numbers of its commits
\* dated within 1, 7 and 30 days of now, nothing being carried over (each of
\* the three is at most total_commits).
C15_StatsRecomputed ==
    /\ stats.total_commits = Len(stats_commits)
    /\ stats.commits_today = CountSince(stats_commits, now, OneDay)
    /\ stats.commits_this_week = CountSince(stats_commits, now, OneWeek)
    /\ stats.commits_this_month = CountSince(stats_commits, now, OneMonth)
    /\ stats.commits_today <= stats.total_commits
    /\ stats.commits_this_week <= stats.total_commits
    /\ stats.commits_this_month <= stats.total_commits

\* position of the first commit of this author in the list
FirstOccurrence(commits, author) ==
    CHOOSE i \in 1..Len(commits) :
        /\ commits[i].author = author
        /\ \A j \in 1..(i - 1) : commits[j].author # author

RECURSIVE SumOfCounts(_)
SumOfCounts(pairs) ==
    IF pairs = <<>> THEN 0 ELSE pairs[1][2] + SumOfCounts(Tail(pairs))

\* C16: after calculate_stats commits_by_author holds each distinct author
\* exactly once with its number of commits (the counts sum to total_commits,
\* the number of entries is total_authors), ordered by count descending,
\* authors with equal counts in the order of their first occurrence in the
\* commit list.
C16_AuthorsByCountThenFirstOccurrence ==
    LET cba == stats.commits_by_author IN
    /\ {cba[k][1] : k \in 1..Len(cba)} = AuthorsOf(stats_commits)
    /\ Len(cba) = Cardinality(AuthorsOf(stats_commits))
    /\ \A k \in 1..Len(cba) :
          cba[k][2] = Cardinality({i \in 1..Len(stats_commits) :
                                      stats_commits[i].author = cba[k][1]})
    /\ SumOfCounts(cba) = stats.total_commits
    /\ Len(cba) = stats.total_authors
    /\ \A k \in 1..(Len(cba) - 1) :
          \/ cba[k][2] > cba[k + 1][2]
          \/ /\ cba[k][2] = cba[k + 1][2]
             /\ FirstOccurrence(stats_commits, cba[k][1])
                    < FirstOccurrence(stats_commits, cba[k + 1][1])

-----------------------------------------------------------------------------
(* Claims about the commit types, checked under SpecType *)

HasTag(commit) == \E i \in 1..Len(commit.refs) : commit.refs[i] = "Tag"

\* the summary starts with the prefix, letter case ignored
StartsIgnoringCase(summary, prefix) ==
    /\ Len(prefix) <= Len(summary)
    /\ \A k \in 1..Len(prefix) : LowerChar(summary[k]) = LowerChar(prefix[k])

\* number of times the commits of the input name this hash as a parent
RecordedChildren(hash) ==
    Cardinality({<<k, j>> \in (1..Len(tree_input)) \X (1..2) :
                    /\ j <= Len(tree_input[k].parent_hashes)
                    /\ tree_input[k].parent_hashes[j] = hash})

BuiltNodes == IF tree_pc = "built" THEN Range(tree_nodes) ELSE {}

\* C17 as stated: every commit with two or more parents is classified Merge,
\* whatever its summary.
C17_TwoParentsIsMerge ==
    \A node \in BuiltNodes :
        Len(node.commit.parent_hashes) >= 2 => node.commit_type = "Merge"

\* C17 amended: every commit with two or more parents and no Tag reference
\* is classified Merge, whatever its summary; with a Tag reference it is
\* classified Tag.
C17_UntaggedTwoParentsIsMerge ==
    \A node \in BuiltNodes :
        Len(node.commit.parent_hashes) >= 2 =>
            node.commit_type = IF HasTag(node.commit) THEN "Tag" ELSE "Merge"

\* a commit with two parents whose summary reads as a revert is a Merge
C17_Witness ==
    \E node \in BuiltNodes :
        /\ Len(node.commit.parent_hashes) = 2
        /\ node.commit.summary = <<"R","e","v","e","r","t",":"," ","X">>
        /\ ~HasTag(node.commit)
        /\ node.commit_type = "Merge"

TypeOrder == <<"Tag", "Merge", "Revert", "Squash", "Initial", "Branch", "Regular">>

\* the first class of TypeOrder whose condition holds
FirstClass(conditions) ==
    TypeOrder[CHOOSE k \in 1..Len(TypeOrder) :
                 conditions[k] /\ \A j \in 1..(k - 1) : ~conditions[j]]

IsMergeClass(commit) ==
    \/ Len(commit.parent_hashes) > 1
    \/ RecordedChildren(commit.hash) > 1
    \/ StartsIgnoringCase(commit.summary, <<"m","e","r","g","e">>)

\* C18 as stated: the type of every node is the first matching class in the
\* order Tag (has a Tag reference) > Merge (more than one parent, more than
\* one recorded child, or summary starting with 'merge') > Revert (summary
\* starting with 'revert') > Squash (summary starting with 'squash') >
\* Initial (no parents) > Branch (more than one recorded child) > Regular,
\* prefixes compared ignoring case.
C18_TypeByPriority ==
    \A node \in BuiltNodes :
        node.commit_type =
            FirstClass(<<HasTag(node.commit),
                         IsMergeClass(node.commit),
                         StartsIgnoringCase(node.commit.summary, <<"r","e","v","e","r","t">>),
                         StartsIgnoringCase(node.commit.summary, <<"s","q","u","a","s","h">>),
                         node.commit.parent_hashes = <<>>,
                         RecordedChildren(node.commit.hash) > 1,
                         TRUE>>)

\* C18 amended: the same order, Revert being a summary that starts with
\* 'revert ' or 'revert:' and Squash a summary that starts with 'squash '
\* (the word followed by a space), prefixes compared ignoring case.
C18_TypeByPriorityExactPrefixes ==
    \A node \in BuiltNodes :
        node.commit_type =
            FirstClass(<<HasTag(node.commit),
                         IsMergeClass(node.commit),
                         \/ StartsIgnoringCase(node.commit.summary,
                                               <<"r","e","v","e","r","t"," ">>)
                         \/ StartsIgnoringCase(node.commit.summary,
                                               <<"r","e","v","e","r","t",":">>),
                         StartsIgnoringCase(node.commit.summary,
                                            <<"s","q","u","a","s","h"," ">>),
                         node.commit.parent_hashes = <<>>,
                         RecordedChildren(node.commit.hash) > 1,
                         TRUE>>)

\* 'Revert: X' with one parent is classified Revert
C18_Witness ==
    \E node \in BuiltNodes :
        /\ Len(node.commit.parent_hashes) = 1
        /\ node.commit.summary = <<"R","e","v","e","r","t",":"," ","X">>
        /\ node.commit_type = "Revert"

-----------------------------------------------------------------------------
(* Claims about linear chains, checked under SpecChain *)

\* C19: for every linear chain of three commits (a root without parents,
\* each other commit having the previous one as its single parent,
\* timestamps strictly increasing along the chain, no tag references,
\* summaries not starting with merge, revert or squash), given in any input
\* order, the graph has exactly 3 nodes ordered newest first and none of
\* them is classified Merge.
C19_ChainOfThree ==
    tree_pc = "built" =>
        /\ Len(tree_nodes) = 3
        /\ [k \in 1..3 |-> tree_nodes[k].commit.hash] = <<"c", "b", "a">>
        /\ \A k \in 1..2 : tree_nodes[k].commit.date > tree_nodes[k + 1].commit.date
        /\ \A k \in 1..3 : tree_nodes[k].commit_type # "Merge"

\* a chain listed tip first, then root, then the middle commit, was built
C19_Witness ==
    /\ tree_pc = "built"
    /\ [k \in 1..3 |-> tree_input[k].hash] = <<"c", "a", "b">>
    /\ [k \in 1..3 |-> tree_nodes[k].commit.hash] = <<"c", "b", "a">>
    /\ \A k \in 1..3 : tree_nodes[k].commit_type \in {"Initial", "Regular"}

-----------------------------------------------------------------------------
(* Claims about the diff statistics, checked under SpecDiff *)

CountOfType(t) == Cardinality({k \in 1..Len(diff_lines) : diff_lines[k].line_type = t})

\* positions of the lines of the diff text that start with the prefix
LinesStarting(prefix) ==
    {k \in 1..Len(diff_content) :
        /\ Len(diff_content[k]) >= Len(prefix)
        /\ \A i \in 1..Len(prefix) : diff_content[k][i] = prefix[i]}

\* the text of line k after its first n characters
TextAfter(k, n) == [i \in 1..(Len(diff_content[k]) - n) |-> diff_content[k][i + n]]

LatestOf(S) == CHOOSE k \in S : \A j \in S : j <= k

\* additions, deletions, files_changed and net_change are as the claim says
CountsAsClaimed ==
    /\ diff_stats.additions = CountOfType("Addition")
    /\ diff_stats.deletions = CountOfType("Deletion")
    /\ diff_stats.files_changed = Max(1, Cardinality(LinesStarting(<<"+","+","+">>)))
    /\ diff_stats.net_change = Max(0, diff_stats.additions - diff_stats.deletions)
    /\ (diff_content = <<<<"+","+","+"," ","b","/","f">>, <<"+","x">>, <<"+","x">>, <<"-","y">>>>)
          => /\ diff_stats.additions = 2
             /\ diff_stats.deletions = 1
             /\ diff_stats.files_changed = 1

\* C20 as stated: count_stats over any parsed diff returns additions = number
\* of Addition lines, deletions = number of Deletion lines, files_changed =
\* max(1, number of lines starting with '+++'), net_change = max(0, additions
\* - deletions) and current_file = the path of the latest '+++' header.
C20_DiffStats ==
    diff_pc = "counted" =>
        /\ CountsAsClaimed
        /\ LET headers == LinesStarting(<<"+","+","+"," ">>) IN
           diff_stats.current_file =
               IF headers = {} THEN <<>>
               ELSE IF LatestOf(headers) \in LinesStarting(<<"+","+","+"," ","b","/">>)
               THEN TextAfter(LatestOf(headers), 6)
               ELSE TextAfter(LatestOf(headers), 4)

\* C20 amended: the counts as stated, and current_file = the text after
\* '+++ b/' of the latest line that starts with '+++ b/', empty when there is
\* none; a '+++' header without the 'b/' prefix counts as a file and leaves
\* current_file as it was.
C20_DiffStatsLatestPrefixedHeader ==
    diff_pc = "counted" =>
        /\ CountsAsClaimed
        /\ LET headers == LinesStarting(<<"+","+","+"," ","b","/">>) IN
           diff_stats.current_file =
               IF headers = {} THEN <<>> ELSE TextAfter(LatestOf(headers), 6)

\* the diff '+++ b/f', two added lines, one deleted line was counted
C20_Witness ==
    /\ diff_pc = "counted"
    /\ diff_content = <<<<"+","+","+"," ","b","/","f">>, <<"+","x">>, <<"+","x">>, <<"-","y">>>>
    /\ diff_stats.additions = 2 /\ diff_stats.deletions = 1
    /\ diff_stats.files_changed = 1 /\ diff_stats.net_change = 1
    /\ diff_stats.current_file = <<"f">>

-----------------------------------------------------------------------------
(* Claims about the parsed diff lines, checked under SpecDiff *)

Parsed == diff_pc # "text"

\* positions before k whose parsed line is not a Deletion
NonDeletionsBefore(k) == {j \in 1..(k - 1) : diff_lines[j].line_type # "Deletion"}

\* C21: parse numbers lines from 1 and advances the display line counter
\* after every line except Deletion lines: the number of the k-th line is
\* 1 + the count of non-Deletion lines before it, so two Addition lines
\* separated only by Deletion lines get consecutive numbers.
C21_LineNumbers ==
    Parsed =>
        /\ \A k \in 1..Len(diff_lines) :
              diff_lines[k].line_number = Some(1 + Cardinality(NonDeletionsBefore(k)))
        /\ \A i, k \in 1..Len(diff_lines) :
              (/\ i < k
               /\ diff_lines[i].line_type = "Addition"
               /\ diff_lines[k].line_type = "Addition"
               /\ \A j \in (i + 1)..(k - 1) : diff_lines[j].line_type = "Deletion")
                 => diff_lines[k].line_number[1] = diff_lines[i].line_number[1] + 1

\* two added lines with a deleted line between them carry the numbers 2 and 3
C21_Witness ==
    /\ Parsed
    /\ diff_content = <<<<"+","+","+"," ","b","/","f">>, <<"+","x">>, <<"-","y">>, <<"+","x">>>>
    /\ diff_lines[2].line_number = Some(2)
    /\ diff_lines[3].line_number = Some(3)
    /\ diff_lines[4].line_number = Some(3)

\* the text line starts with the prefix
LineStarts(line, prefix) ==
    /\ Len(line) >= Len(prefix)
    /\ \A i \in 1..Len(prefix) : line[i] = prefix[i]

RuleTypes == <<"Context", "Header", "Meta", "HunkHeader", "Addition", "Deletion", "Context">>

\* the type of the first rule of the claim's list that the line matches
FirstRule(line) ==
    LET rules == <<line = <<>>,
                   \/ LineStarts(line, <<"d","i","f","f"," ","-","-","g","i","t">>)
                   \/ LineStarts(line, <<"+","+","+">>)
                   \/ LineStarts(line, <<"-","-","-">>),
                   LineStarts(line, <<"i","n","d","e","x"," ">>),
                   LineStarts(line, <<"@","@">>),
                   LineStarts(line, <<"+">>) /\ ~LineStarts(line, <<"+","+","+">>),
                   LineStarts(line, <<"-">>) /\ ~LineStarts(line, <<"-","-","-">>),
                   TRUE>>
    IN RuleTypes[CHOOSE k \in 1..Len(RuleTypes) : rules[k] /\ \A j \in 1..(k - 1) : ~rules[j]]

\* C22: parse classifies each line by the first matching rule in the order
\* empty -> Context; starts with 'diff --git', '+++' or '---' -> Header;
\* starts with 'index ' -> Meta; starts with '@@' -> HunkHeader; starts with
\* '+' (not '+++') -> Addition; starts with '-' (not '---') -> Deletion;
\* anything else -> Context; the output has one entry per input line, in
\* order.
C22_LineTypes ==
    Parsed =>
        /\ Len(diff_lines) = Len(diff_content)
        /\ \A k \in 1..Len(diff_lines) :
              /\ diff_lines[k].content = diff_content[k]
              /\ diff_lines[k].line_type = FirstRule(diff_content[k])

\* a header, a metadata line, a malformed line and an empty line were parsed
C22_Witness ==
    /\ Parsed
    /\ diff_content = <<<<"-","-","-"," ","a","/","f">>, <<"i","n","d","e","x"," ","1">>, <<"?">>, <<>>>>
    /\ [k \in 1..4 |-> diff_lines[k].line_type] = <<"Header", "Meta", "Context", "Context">>

-----------------------------------------------------------------------------
(* Claims about the command palette, checked under SpecPalette *)

InPalette == app.view_mode = "CommandPalette"

\* what the command named by an action id does to the App
ActionEffect(a, id, env) ==
    CASE id = "toggle_sidebar" -> [a EXCEPT !.sidebar_visible = ~@]
      [] id = "next_panel" -> next_panel(a)
      [] id = "prev_panel" -> prev_panel(a)
      [] id = "move_up" -> move_up(a)
      [] id = "move_down" -> move_down(a)
      [] id = "go_to_start" -> go_to_start(a)
      [] id = "go_to_end" -> go_to_end(a)
      [] id = "view_details" -> [a EXCEPT !.view_mode = "Details"]
      [] id = "search" -> [a EXCEPT !.is_searching = TRUE, !.search_query = <<>>]
      [] id = "toggle_stage" -> toggle_file_stage(a, env)
      [] id = "stage_all" -> stage_all_files(a, env)
      [] id = "unstage_all" -> unstage_all_files(a, env)
      [] id = "toggle_theme" -> [a EXCEPT !.theme = theme_next(@)]
      [] id = "help" -> [a EXCEPT !.view_mode = "Help"]
      [] id \in {"quit", "command_palette"} -> a

\* the App that Enter leaves when the palette shows the App a
AfterEnter(a, env) == handle_event(a, KeyEv(Key("Enter")), env)

PressDown(a) == handle_event(a, KeyEv(Key("Down")), OkEnv).app

PressUp(a) == handle_event(a, KeyEv(Key("Up")), OkEnv).app

RECURSIVE PressDownTimes(_, _)
PressDownTimes(a, n) == IF n = 0 THEN a ELSE PressDownTimes(PressDown(a), n - 1)

\* the number of times x occurs in the list
Occurrences(list, x) == Cardinality({i \in 1..Len(list) : list[i] = x})

\* C24: in CommandPalette mode Down rotates the result list left by one and
\* Up rotates it right by one, with wraparound: the list keeps the same
\* entries and length, Up then Down and Down then Up restore the previous
\* order, Down pressed as many times as the list is long restores the
\* original order, and the entry Enter acts on is always the one at
\* position 0.
C24_RotateResults ==
    InPalette =>
        LET results == app.command_palette_results
            n       == Len(results)
            down    == PressDown(app)
            up      == PressUp(app)
        IN /\ down = [app EXCEPT !.command_palette_results =
                          [k \in 1..n |-> results[(k % n) + 1]]]
           /\ up = [app EXCEPT !.command_palette_results =
                        [k \in 1..n |-> results[((k + n - 2) % n) + 1]]]
           /\ \A x \in Range(results) \cup Range(down.command_palette_results) :
                 Occurrences(down.command_palette_results, x) = Occurrences(results, x)
           /\ PressDown(up) = app
           /\ PressUp(down) = app
           /\ PressDownTimes(app, n) = app
           /\ n > 0 =>
                 AfterEnter(down, OkEnv).app =
                     [ActionEffect(down, results[(1 % n) + 1], OkEnv)
                         EXCEPT !.view_mode = "List", !.status_message = <<>>]

\* Down on the freshly opened palette moved Toggle Sidebar to the end
C24_Witness ==
    /\ PressedCode(event, "Down") /\ prev.view_mode = "CommandPalette"
    /\ InPalette
    /\ Len(app.command_palette_results) = Len(get_all_commands)
    /\ app.command_palette_results[1] = "next_panel"
    /\ app.command_palette_results[Len(app.command_palette_results)] = "toggle_sidebar"

-----------------------------------------------------------------------------
(* Claims about staging and the diff fetch, checked under SpecCollab *)

InList == app.view_mode = "List" /\ ~app.is_searching

SpaceKey == KeyEv(Char(" "))

\* the outcome of a collaborator call changes what the handler of e leaves:
\* the handler makes a collaborator call
OutcomeMatters(a, e, envs) ==
    \E env1, env2 \in envs : handle_event(a, e, env1) # handle_event(a, e, env2)

\* C25: in List mode space invokes the stage/unstage collaborator call only
\* when the active panel is Files; with Branches or Commits active no
\* collaborator call is made and the file list and the status message are
\* untouched (toggle_file_stage is a no-op outside the Files panel).
C25_SpaceStagesOnlyInFiles ==
    InList =>
        /\ OutcomeMatters(app, SpaceKey, StageEnvs) => app.active_panel = "Files"
        /\ app.active_panel # "Files" =>
              \A env \in StageEnvs :
                  LET r == handle_event(app, SpaceKey, env) IN
                  /\ r.app.files = app.files
                  /\ r.app.status_message = app.status_message
                  /\ ~r.quit
                  /\ toggle_file_stage(app, env) = app
        /\ (app.active_panel = "Files" /\ app.files # <<>>) =>
              OutcomeMatters(app, SpaceKey, StageEnvs)

\* space pressed on the Commits panel after a stage-all listed two files:
\* the selection moved, the files and the message of the stage-all stayed
C25_Witness ==
    /\ event = SpaceKey
    /\ InList
    /\ app.active_panel = "Commits"
    /\ Len(app.files) = 2
    /\ app.status_message = <<"Staged all files">>
    /\ app.selected_index = 1

\* the handler of the staging key e reaches a collaborator call or the test
\* of the repository path
AttemptsStaging(a, e) ==
    \/ e \in {KeyEv(Ctrl("S")), KeyEv(Ctrl("U"))}
    \/ e = SpaceKey /\ a.active_panel = "Files" /\ Get(a.files, a.selected_file_index) # None

\* the file the space key acts on is staged
SelectedIsStaged(a) == Get(a.files, a.selected_file_index)[1].status \in StagedStatuses

\* the message of the stage or unstage call of key e failing
StageErrorOf(a, e) ==
    IF e = KeyEv(Ctrl("S")) THEN "Error staging all files: {}"
    ELSE IF e = KeyEv(Ctrl("U")) THEN "Error unstaging all files: {}"
    ELSE IF SelectedIsStaged(a) THEN "Error unstaging file: {}"
    ELSE "Error staging file: {}"

\* the message reporting what failed, None when nothing failed
FailureOf(a, e, env) ==
    IF ~a.repo_path THEN Some("No repository path available")
    ELSE IF env.stage = "Err" THEN Some(StageErrorOf(a, e))
    ELSE IF env.status = "Err" THEN Some("Error loading files: {}")
    ELSE None

DiffFetchEv == KeyEv(Shift("d"))

\* the text fetch_diff stores when the fetch for the commit fails
DiffErrorText(a, env) ==
    IF ~a.repo_path THEN <<"No repository path available">>
    ELSE <<"Error fetching diff: {}", selected_commit(a)[1].hash>>

DiffErrorTexts == {"No repository path available", "Error fetching diff: {}"}

\* C27: when the diff fetch for the selected commit fails (collaborator error
\* or no repository path), diff_content is replaced by the error text, the
\* mode still becomes Diff, the handler returns false and further keys are
\* processed normally (Esc returns to List).
C27_DiffFetchFailure ==
    /\ (InList /\ selected_commit(app) # None) =>
          \A env \in DiffEnvs :
              (~app.repo_path \/ env.diff = "Err") =>
                  LET r == handle_event(app, DiffFetchEv, env) IN
                  /\ ~r.quit
                  /\ r.app = [app EXCEPT !.diff_content = DiffErrorText(app, env),
                                          !.view_mode = "Diff"]
                  /\ r.app.diff_content # handle_event(
                          [app EXCEPT !.repo_path = TRUE], DiffFetchEv, OkEnv).app.diff_content
                  /\ \A k \in DiffViewKeys :
                        LET n == handle_event(r.app, KeyEv(k), OkEnv) IN
                        /\ ~n.quit
                        /\ n.app = [r.app EXCEPT !.view_mode =
                                        IF k = Key("Esc") THEN "List" ELSE "Diff"]
    /\ (event = DiffFetchEv /\ prev.view_mode = "List" /\ ~prev.is_searching)
          => (app.view_mode = "Diff" /\ ~should_quit)
    /\ (PressedCode(event, "Esc") /\ prev.view_mode = "Diff")
          => (app.view_mode = "List" /\ ~should_quit)

\* Esc closed the diff view that showed the text of a failed fetch
C27_Witness ==
    /\ PressedCode(event, "Esc") /\ prev.view_mode = "Diff"
    /\ app.view_mode = "List" /\ ~should_quit
    /\ app.diff_content # <<>>
    /\ app.diff_content[1] \in DiffErrorTexts

-----------------------------------------------------------------------------
(* Claims about the mouse, checked under SpecMouse *)

\* the events of SpecMouse that are not left clicks
NonClickEvents ==
    {MouseEv(m) : m \in OtherMice}
    \cup {KeyEv(k) : k \in MouseListKeys \cup MouseDetailKeys}

IsLeftClick(e) == e.type = "Mouse" /\ e.mouse.kind = "LeftDown"

\* the previous left click was at the place of the click m and less than
\* DoubleClickMillis before it
RepeatsPreviousClick(a, m) ==
    /\ a.last_click_position = Some(<<m.column, m.row>>)
    /\ m.elapsed < DoubleClickMillis

\* C28: a left click counts as a double click exactly when the previous left
\* click was at the same (column, row) and less than 300 ms earlier; a double
\* click while the mode is List switches the mode to Details; a double click
\* in any other mode and any single click leave the mode unchanged.
C28_DoubleClick ==
    /\ IsLeftClick(event) =>
          app.last_click_position = Some(<<event.mouse.column, event.mouse.row>>)
    /\ \A e \in NonClickEvents :
          handle_event(app, e, OkEnv).app.last_click_position = app.last_click_position
    /\ \A m \in LeftClicks :
          LET r == handle_event(app, MouseEv(m), OkEnv) IN
          /\ ~r.quit
          /\ r.app.view_mode =
                IF RepeatsPreviousClick(app, m) /\ app.view_mode = "List"
                THEN "Details" ELSE app.view_mode

\* the second of two clicks on the same place, 299 ms after the first, in List
C28_Witness ==
    /\ IsLeftClick(event) /\ event.mouse.elapsed = DoubleClickMillis - 1
    /\ prev.view_mode = "List"
    /\ app.view_mode = "Details"
    /\ app.status_message = <<"Double-click: viewing details">>

\* the band of the sidebar a row lies in
PanelOfRow(row) ==
    IF row < 3 THEN "Files" ELSE IF row < 6 THEN "Branches" ELSE "Commits"

\* the click is on one of the rows of the commit list
OnListRow(m) == m.row >= HeaderHeight /\ m.row < HeaderHeight + MouseItemsPerPage

\* C29: a left click in the main commit area (outside the sidebar zone) on a
\* list row sets the selection index to clicked row + scroll offset, clamped
\* to [0, len - 1], whether the sidebar is visible or hidden, while a left
\* click inside the sidebar zone only switches the active panel by vertical
\* band.
C29_ClickSelectsClamped ==
    \A m \in LeftClicks :
        LET r == handle_event(app, MouseEv(m), OkEnv).app IN
        /\ (m.column >= SidebarWidth /\ OnListRow(m)) =>
              r.selected_index =
                  Max(0, Min(app.scroll_offset + (m.row - HeaderHeight),
                             Len(app.commits) - 1))
        /\ (m.column < SidebarWidth /\ app.sidebar_visible) =>
              /\ r.active_panel = PanelOfRow(m.row)
              /\ r.selected_index = app.selected_index
              /\ r.scroll_offset = app.scroll_offset

-----------------------------------------------------------------------------
(* Claims about the highlighter, checked under SpecHighlight *)

Styled == hl_pc = "styled"

\* the language has a keyword table or a type table
HasTable(language) == get_keywords(language) # {} \/ get_types(language) # {}

\* the Line consists of one unstyled span holding the whole line
OneRawSpan ==
    hl_line[1].spans = <<[content |-> hl_args.content, style |-> None]>>

IsBlank(c) == \A i \in 1..Len(c) : c[i] = " "

HasQuote(c) == \E i \in 1..Len(c) : c[i] \in {"\"", "'"}

HasCommentMark(c) ==
    \E i \in 1..(Len(c) - 1) : c[i] = "/" /\ c[i + 1] \in {"/", "*"}

\* apart from the spaces around it the line holds only digits, '.', 'x', 'X',
\* 'o' and 'b'
LooksLikeNumber(c) ==
    \A i \in 1..Len(c) :
        \/ c[i] \in Digits \cup {".", "x", "X", "o", "b"}
        \/ /\ c[i] = " "
           /\ \/ \A j \in 1..i : c[j] = " "
              \/ \A j \in i..Len(c) : c[j] = " "

-----------------------------------------------------------------------------
(* Claims about scrolling under move_up and move_down, checked under SpecNav *)

\* the last event moved the selection by one row
MovedUp == PressedUp(event) /\ app.selected_index = prev.selected_index - 1

MovedDown == PressedDown(event) /\ app.selected_index = prev.selected_index + 1

\* row i lies in the page of PageSize rows that starts at offset
VisibleAt(i, offset) == offset <= i /\ i < offset + PageSize

\* C31: when move_up or move_down takes the selection outside the visible
\* page, the scroll offset changes by exactly the minimum needed to make it
\* visible (the selection becomes the first visible row after move_up, the
\* last visible row after move_down); when the new selection is already
\* visible the scroll offset is unchanged.
C31_MinimalScroll ==
    /\ (MovedUp /\ app.selected_index < prev.scroll_offset)
          => app.scroll_offset = app.selected_index
    /\ (MovedDown /\ app.selected_index >= prev.scroll_offset + PageSize)
          => app.scroll_offset = app.selected_index - PageSize + 1
    /\ ((MovedUp \/ MovedDown) /\ VisibleAt(app.selected_index, prev.scroll_offset))
          => app.scroll_offset = prev.scroll_offset

-----------------------------------------------------------------------------
(* Claims about the order of nodes of equal date, checked under SpecTies *)

\* position at which the walk pushed the node of the commit with this hash,
\* emitted being the nodes in the order of the walk
EmittedAt(emitted, hash) ==
    CHOOSE k \in 1..Len(emitted) : emitted[k].commit.hash = hash

\* positions i < j of the built tree that hold commits of equal date
TiedPairs ==
    {p \in (1..Len(tree_nodes)) \X (1..Len(tree_nodes)) :
        /\ p[1] < p[2]
        /\ tree_nodes[p[1]].commit.date = tree_nodes[p[2]].commit.date}

\* C32 as stated: the final ordering is a stable sort by timestamp descending:
\* two commits with equal timestamps appear in the output in the same relative
\* order in which the traversal emitted them.
C32_TiesInEmittedOrder ==
    tree_pc = "built" =>
        \E emitted \in {walk(tree_input).nodes} :
            \A p \in TiedPairs :
                EmittedAt(emitted, tree_nodes[p[1]].commit.hash)
                    < EmittedAt(emitted, tree_nodes[p[2]].commit.hash)

\* C32, amended: the nodes are in non-increasing order of date, and two
\* commits with equal dates appear in the reverse of the order in which the
\* traversal emitted them (a stable ascending sort followed by a reversal).
C32_TiesInReversedEmittedOrder ==
    tree_pc = "built" =>
        /\ \A i \in 1..(Len(tree_nodes) - 1) :
              tree_nodes[i].commit.date >= tree_nodes[i + 1].commit.date
        /\ \E emitted \in {walk(tree_input).nodes} :
              \A p \in TiedPairs :
                  EmittedAt(emitted, tree_nodes[p[1]].commit.hash)
                      > EmittedAt(emitted, tree_nodes[p[2]].commit.hash)

\* C32 witness: a root and its child carry the same date; the walk emitted the
\* root first and the built tree lists the child first.
C32_Witness ==
    /\ tree_pc = "built"
    /\ Len(tree_nodes) = 2
    /\ tree_nodes[1].commit.date = tree_nodes[2].commit.date
    /\ tree_nodes[1].commit.parent_hashes = <<tree_nodes[2].commit.hash>>
    /\ EmittedAt(walk(tree_input).nodes, tree_nodes[2].commit.hash) = 1
    /\ EmittedAt(walk(tree_input).nodes, tree_nodes[1].commit.hash) = 2

-----------------------------------------------------------------------------
(* Claims about the lanes of the children of a commit, checked under        *)
(* SpecLanes                                                                *)

\* the node built for the commit with this hash
NodeOf(hash) == CHOOSE n \in Range(tree_nodes) : n.commit.hash = hash

\* the recorded children of the commit with this hash, in the order of the
\* reverse map
ChildrenOf(hash) ==
    LET pm == parent_map(tree_input)
    IN IF hash \in DOMAIN pm THEN pm[hash] ELSE <<>>

\* the lane vector a node was walked with
LanesOf(node) == [k \in 1..Len(node.branch_lanes) |-> node.branch_lanes[k].is_continuing]

\* the first child of every commit was walked with the lane index of its parent
FirstChildKeepsLane ==
    \A p \in Range(tree_nodes) :
        ChildrenOf(p.commit.hash) # <<>>
            => NodeOf(ChildrenOf(p.commit.hash)[1]).lane_index = p.lane_index

\* every later child has a lane index different from its parent's and from
\* that of every sibling
LaterChildrenGetNewLane ==
    \A p \in Range(tree_nodes) :
        LET children == ChildrenOf(p.commit.hash) IN
        \A i \in 2..Len(children) :
            /\ NodeOf(children[i]).lane_index # p.lane_index
            /\ \A j \in 1..Len(children) :
                  j # i => NodeOf(children[j]).lane_index # NodeOf(children[i]).lane_index

\* the lane vector of a child is that of its parent with at most the child's
\* own slot changed: nothing written for a sibling shows in it, and nothing
\* written for a child shows in the parent's
OwnCopyOfLanes ==
    \A p \in Range(tree_nodes) :
        LET children == ChildrenOf(p.commit.hash) IN
        \A i \in 1..Len(children) :
            LET c == NodeOf(children[i]) IN
            /\ Len(LanesOf(c)) >= Len(LanesOf(p))
            /\ \A k \in 1..Len(LanesOf(c)) :
                  k # c.lane_index + 1
                      => LanesOf(c)[k] = (IF k <= Len(LanesOf(p)) THEN LanesOf(p)[k] ELSE FALSE)

\* C33: for a commit with several recorded children, the first child is
\* walked with the parent's lane index and every later child is given a new
\* lane slot, a lane index different from the parent's lane index and from
\* the lane index of every sibling; each child is walked with its own copy of
\* the lane vector, so lane changes made for one child are never visible to
\* the parent or to a sibling.
C33_LaterChildrenOnNewLanes ==
    tree_pc = "built" =>
        /\ FirstChildKeepsLane
        /\ LaterChildrenGetNewLane
        /\ OwnCopyOfLanes

-----------------------------------------------------------------------------
(* Claims about the line scanner, checked under SpecHighlight *)

\* the line was handed to highlight_line
Scanned ==
    Styled /\ hl_language # "plaintext" /\ ~IsBlank(hl_args.content)

\* the locals of highlight_line after the first k characters of the line
ScannerAfter(k) ==
    highlight_loop(hl_args.content, k, get_keywords(hl_language), get_types(hl_language),
                   get_syntax_colors(hl_args.dark_theme))

InLiteral(st) == st.in_string \/ st.in_char

\* the scanner is in one of in-literal, in-block-comment and bare code
OneScannerState(st) ==
    /\ ~(InLiteral(st) /\ st.in_comment)
    /\ ~(st.in_string /\ st.in_char)

ScannerStatesExclusive ==
    Scanned => \A k \in 0..Len(hl_args.content) : OneScannerState(ScannerAfter(k))

\* number of backslashes that immediately precede the character at position i
RECURSIVE BackslashesBefore(_, _)
BackslashesBefore(line, i) ==
    IF i > 1 /\ line[i - 1] = "\\" THEN 1 + BackslashesBefore(line, i - 1) ELSE 0

\* inside a literal, the character at position i is escaped by a backslash
Escaped(line, i) == BackslashesBefore(line, i) % 2 = 1

\* C34: in the line scanner, while inside a string or char literal a
\* backslash escapes the next character: an escaped quote does not close the
\* literal, the literal closes only at the next unescaped matching quote, and
\* the scanner is never in more than one of the states in-literal,
\* in-block-comment and bare-code at once.
C34_EscapedQuoteKeepsLiteral ==
    Scanned =>
        \A k \in 1..Len(hl_args.content) :
            LET before == ScannerAfter(k - 1)
                after  == ScannerAfter(k)
                ch     == hl_args.content[k]
            IN /\ OneScannerState(after)
               /\ (InLiteral(before) /\ ~before.stopped)
                     => (InLiteral(after)
                           <=> ~(ch = before.string_char /\ ~Escaped(hl_args.content, k)))

-----------------------------------------------------------------------------
(* Claims about the highlighted row of the graph, checked under SpecRows *)

\* App.tree, assigned CommitTree::new(commits) by App::new and by set_commits
tree(a) == build_tree(a.commits)

\* render_main_content: the node whose line is drawn as selected, the one at
\* global_index = selected_index of tree.nodes()
highlighted_node(a) == Get(tree(a).nodes, a.selected_index)

\* C35: when no filter is active, the row highlighted in the commit list and
\* the commit that actions operate on are the same commit: for every input
\* commit list and in every reachable state, tree.nodes()[selected_index]
\* exists and has the same id as selected_commit().
C35_HighlightedIsSelected ==
    (~app.is_filtering /\ app.commits # <<>>) =>
        /\ highlighted_node(app) # None
        /\ selected_commit(app) # None
        /\ highlighted_node(app)[1].commit.hash = selected_commit(app)[1].hash

-----------------------------------------------------------------------------
(* Claims about the selection under an active filter, checked under         *)
(* SpecFilter                                                               *)

\* C36: while a filter is active and the filtered list is non-empty, the
\* selection stays inside the filtered list: selected_index <
\* filtered_commits.len(), so that selected_commit() returns a commit, in
\* every state reachable through key and mouse events after the filter was
\* applied.
C36_SelectionInsideFilteredList ==
    (app.is_filtering /\ app.filtered_commits # <<>>) =>
        /\ app.selected_index < Len(app.filtered_commits)
        /\ selected_commit(app) # None

-----------------------------------------------------------------------------
(* Claims about reaching quit, checked under Spec *)

\* the returns of handle_key for the keys Esc, Esc, 'q' fed to App a in turn
EscEscQ(a, env) ==
    LET r1 == handle_key(a, Key("Esc"), env)
        r2 == handle_key(r1.app, Key("Esc"), env)
        r3 == handle_key(r2.app, Char("q"), env)
    IN <<r1.quit, r2.quit, r3.quit>>

\* C37: quit is always reachable within three keys: from every state
\* reachable through key and mouse events, feeding the keys Esc, Esc, 'q' to
\* handle_key returns false, false, and then the terminate flag on 'q'.
C37_QuitWithinThreeKeys ==
    \A env \in {OkEnv, ErrEnv} : EscEscQ(app, env) = <<FALSE, FALSE, TRUE>>

\* C37 witness: a search is being typed, where 'q' alone would be added to
\* the query, and Esc, Esc, 'q' ends with the terminate flag.
C37_Witness ==
    /\ app.is_searching
    /\ PressedChar(event, "q")
    /\ app.search_query = <<"q">>
    /\ ~should_quit
    /\ EscEscQ(app, OkEnv) = <<FALSE, FALSE, TRUE>>

-----------------------------------------------------------------------------
(* Claims about the indices kept by the search, checked under SpecReload *)

\* every index in search_results is an index of the full commit list
SearchResultsValid ==
    \A i \in 1..Len(app.search_results) : app.search_results[i] < Len(app.commits)

\* the last event was a jump to the next or to the previous match
JumpedToMatch == PressedCtrl(event, "n") \/ PressedCtrl(event, "p")

\* C38: every index stored in search_results is a valid index of the current
\* full commit list (< commits.len()) in every reachable state, including
\* after set_commits replaces the commit list, so next_search_result and
\* prev_search_result can never move the selection out of range.
C38_SearchResultsInRange ==
    /\ SearchResultsValid
    /\ (JumpedToMatch /\ app.commits # <<>>) => app.selected_index < Len(app.commits)

-----------------------------------------------------------------------------
(* Claims about the cached diff, checked under SpecDiffView *)

\* the texts fetch_diff stores for the commit with this hash
DiffTextsFor(hash) ==
    {<<"diff of", hash>>, <<"Error fetching diff: {}", hash>>,
     <<"No repository path available">>}

\* C39: whenever the mode is Diff, the cached diff_content is the diff (or the
\* error text) that was fetched for the commit currently at selected_index: no
\* key or mouse event handled while in Diff mode changes the selection without
\* refetching, and entering Diff mode never shows content fetched for a
\* different commit.
C39_DiffOfSelectedCommit ==
    app.view_mode = "Diff" =>
        /\ IF selected_commit(app) = None
           THEN app.diff_content = <<>>
           ELSE app.diff_content \in DiffTextsFor(selected_commit(app)[1].hash)
        /\ prev.view_mode = "Diff" => app.selected_index = prev.selected_index

-----------------------------------------------------------------------------
(* Claims about typing the filter text, checked under SpecFilter *)

\* the characters of the author filter of test_filter_by_author, and one of
\* each other kind the prompt accepts
TypedFilterChars ==
    {"t", "e", "s", "@", "x", "a", "m", "p", "l", ".", "c", "o", "d",
     "A", "7", "-", "_", " "}

\* C40: any filter text over the accepted alphabet can be entered through key
\* events: for every string made of ASCII letters, digits, '-', '_', ' ', '.'
\* and '@' there is a sequence of keys in Filter mode after which filter_input
\* is that string, because typing an accepted character appends it to
\* filter_input (e.g. the author filter 'test@example.com').
C40_AcceptedCharIsAppended ==
    app.view_mode = "Filter" =>
        \A c \in TypedFilterChars :
            handle_key(app, Char(c), OkEnv).app.filter_input = Append(app.filter_input, c)

====
